---- MODULE Spec2Model ----
(***************************************************************************)
(* A model of paper_tracker's stateful delta-tracking engine: the          *)
(* repository record (models.py), the candidate queue and the              *)
(* reconciliation run (tracker.py), driven as __main__.py drives them.     *)
(*                                                                         *)
(* Conventions.                                                            *)
(*  - An ISO date "YYYY-MM-DD" is the number of its day; NoDate is the     *)
(*    empty string a date field holds before __post_init__ fills it.       *)
(*  - Python's None is Null.                                               *)
(*  - An identity string "owner/name" is the pair <<owner, name>>, so that *)
(*    split("/") and f"{owner}/{repo}" are computed and not assumed; the   *)
(*    empty string is NoName.                                              *)
(*  - A README is the set of the evidence it holds (what the detectors'    *)
(*    regular expressions can match); EmptyReadme is the empty string      *)
(*    get_readme returns on any failure.                                   *)
(*                                                                         *)
(* The discovery pass.  PaperTracker.search (tracker.py:298-316) calls     *)
(* github.search_repos(query=, min_stars=, created_after=, max_results=,   *)
(* sort=) and extends a list with what it returns.  The only search_repos  *)
(* in the sources, GitHubClient.search_repos (github_client.py:147-182),   *)
(* takes (query, min_stars, per_page, page, sort) and returns the pair     *)
(* (items, total_count): against it the call raises TypeError before any   *)
(* result is processed.  The function search() is written against is not   *)
(* in the sources; search_repos below is that function as the              *)
(* specification's Discovery capability describes it, a list of            *)
(* repository metadata that is empty on failure.  Everything after the     *)
(* call is modelled from tracker.py.                                       *)
(* SpecSrc is the run with the call as the sources have it.                *)
(***************************************************************************)
EXTENDS Integers, Sequences, FiniteSets, TLC

(***************************************************************************)
(* Bounds of the model.                                                    *)
(***************************************************************************)
\* the last day the clock of the tracker specification reaches
MaxDay == 1
\* the last day the clock of the record specification reaches
MaxRecDay == 10
\* the largest freshness window asked of is_fresh_release
MaxWindow == 8
\* the number of configured queries of a search() run
NumQueries == 1
\* the longest list one discovery pass returns
MaxResults == 1
\* the most URLs the intake file holds
MaxIssues == 1
\* the longest list of items a history or queue file holds
MaxItems == 2

(***************************************************************************)
(* Values.                                                                 *)
(***************************************************************************)
Null == "null"
NoDate == -1
NoName == <<>>

\* RepoState members (models.py:9-13) and their .value strings
HAS_WEIGHTS == "HAS_WEIGHTS"
COMING_SOON == "COMING_SOON"
NO_WEIGHTS == "NO_WEIGHTS"
RepoState == {HAS_WEIGHTS, COMING_SOON, NO_WEIGHTS}

\* the default window of is_fresh_release and the summary's window
FreshDays == 7

\* The repositories GitHub knows, by canonical identity.
AB == <<"a", "b">>
CD == <<"c", "d">>
Names == {AB, CD}

\* Python truthiness of an Optional[str]
Truthy(s) == s # Null /\ s # ""

\* dict[k] = v
Put(f, k, v) == [x \in (DOMAIN f) \cup {k} |-> IF x = k THEN v ELSE f[x]]

\* del dict[k]
Del(f, k) == [x \in (DOMAIN f) \ {k} |-> f[x]]

EmptyMap == [x \in {} |-> Null]

(***************************************************************************)
(* RepoInfo (models.py).                                                   *)
(***************************************************************************)
\* __post_init__: an empty last_checked becomes today, an empty
\* status_changed_date becomes last_checked.
post_init(r, now) ==
    LET lc == IF r.last_checked = NoDate THEN now ELSE r.last_checked
    IN [r EXCEPT !.last_checked = lc,
                 !.status_changed_date =
                     IF r.status_changed_date = NoDate THEN lc ELSE r.status_changed_date]

\* A mutant of update_status: previous_status is overwritten on every call.
update_status_overwrites_previous(r, new_status, now) ==
    [r EXCEPT !.previous_status = r.status,
              !.status = new_status,
              !.status_changed_date = IF r.status # new_status THEN now ELSE r.status_changed_date,
              !.last_checked = now]

\* A mutant of update_status: a promise that is gone is not booked.
update_status_no_demotion(r, new_status, now) ==
    IF r.status # new_status /\ ~(r.status = COMING_SOON /\ new_status = NO_WEIGHTS)
    THEN [r EXCEPT !.previous_status = r.status,
                   !.status = new_status,
                   !.status_changed_date = now,
                   !.last_checked = now]
    ELSE [r EXCEPT !.last_checked = now]

\* RepoInfo.update_status
update_status(r, new_status, now) ==
    LET changed == IF r.status # new_status
                   THEN [r EXCEPT !.previous_status = r.status,
                                  !.status = new_status,
                                  !.status_changed_date = now]
                   ELSE r
    IN [changed EXCEPT !.last_checked = now]

\* A mutant of is_fresh_release: the window's last day is left out.
is_fresh_release_strict(r, days, now) ==
    IF r.status # HAS_WEIGHTS THEN FALSE
    ELSE IF r.previous_status = Null THEN FALSE
    ELSE IF r.status_changed_date = NoDate THEN FALSE
    ELSE (now - r.status_changed_date) < days

\* RepoInfo.is_fresh_release: strptime of an empty date raises ValueError,
\* which is caught; (now - midnight of the change day).days is the
\* difference of the two day numbers.
is_fresh_release(r, days, now) ==
    IF r.status # HAS_WEIGHTS THEN FALSE
    ELSE IF r.previous_status = Null THEN FALSE
    ELSE IF r.status_changed_date = NoDate THEN FALSE
    ELSE (now - r.status_changed_date) <= days

(***************************************************************************)
(* The detectors (detectors.py).  A README is the set of the evidence it   *)
(* holds: "hf" a Hugging Face link, "release" a release asset link,        *)
(* "cloud" a cloud drive link, "ext" a model file name near a weight       *)
(* keyword, "promise" promise language, "venue" a conference keyword,      *)
(* "arxiv" an arXiv link, "text" anything else.                            *)
(***************************************************************************)
EmptyReadme == {}
ArxivId == "2401.12345"
Venue == "CVPR"
VenueYear == "2024"

\* A mutant of WeightDetector.detect: an empty README counts as a release.
WeightDetector_detect_empty_release(readme) ==
    IF readme = EmptyReadme THEN [status |-> "Release", confidence |-> "high", details |-> {}]
    ELSE IF "hf" \in readme THEN [status |-> "HF", confidence |-> "high", details |-> {"hf"}]
    ELSE IF "release" \in readme
    THEN [status |-> "Release", confidence |-> "high", details |-> {"release"}]
    ELSE IF "cloud" \in readme
    THEN [status |-> "Cloud", confidence |-> "medium", details |-> {"cloud"}]
    ELSE IF "ext" \in readme
    THEN [status |-> "Extension", confidence |-> "low", details |-> {"ext"}]
    ELSE [status |-> "None", confidence |-> "none", details |-> {}]

\* WeightDetector.detect: the first kind of evidence found, in the order
\* Hugging Face, release, cloud drive, model file.
WeightDetector_detect(readme) ==
    IF readme = EmptyReadme THEN [status |-> "None", confidence |-> "none", details |-> {}]
    ELSE IF "hf" \in readme THEN [status |-> "HF", confidence |-> "high", details |-> {"hf"}]
    ELSE IF "release" \in readme
    THEN [status |-> "Release", confidence |-> "high", details |-> {"release"}]
    ELSE IF "cloud" \in readme
    THEN [status |-> "Cloud", confidence |-> "medium", details |-> {"cloud"}]
    ELSE IF "ext" \in readme
    THEN [status |-> "Extension", confidence |-> "low", details |-> {"ext"}]
    ELSE [status |-> "None", confidence |-> "none", details |-> {}]

\* ComingSoonDetector.detect
ComingSoonDetector_detect(readme) ==
    IF readme = EmptyReadme THEN [detected |-> FALSE, details |-> {}]
    ELSE [detected |-> "promise" \in readme, details |-> readme \cap {"promise"}]

\* ConferenceDetector.detect: nothing is detected in an empty README;
\* otherwise the description and the README are searched together.
ConferenceDetector_detect(readme, description) ==
    IF readme = EmptyReadme
    THEN [conference |-> Null, year |-> Null, arxiv_id |-> Null]
    ELSE LET text == {description[i] : i \in DOMAIN description} \cup readme
         IN [conference |-> IF "venue" \in text THEN Venue ELSE Null,
             year |-> IF "venue" \in text THEN VenueYear ELSE Null,
             arxiv_id |-> IF "arxiv" \in text THEN ArxivId ELSE Null]

(***************************************************************************)
(* RelevanceFilter (detectors.py).  A name and the topics are sets of      *)
(* words, a description is a sequence of words; "keyword in text" is       *)
(* membership of the word.  The keyword lists come from config.yaml.       *)
(***************************************************************************)
StrongKeywords == {"super-resolution"}
WeakKeywords == {"denoising"}
ExcludeKeywords == {"audio"}
ExcludeNameTerms == {"awesome", "list"}
ImageContext == {"image", "photo", "picture", "visual"}

\* str.lower() on the words of the model
lower(w) ==
    CASE w = "Super-Resolution" -> "super-resolution"
      [] w = "Image" -> "image"
      [] w = "AUDIO" -> "audio"
      [] w = "Awesome" -> "awesome"
      [] OTHER -> w

Words(repo) ==
    {lower(w) : w \in repo.name
                       \cup {repo.description[i] : i \in DOMAIN repo.description}
                       \cup repo.topics}

\* A mutant of the inclusion test: a weak keyword is enough without an
\* image context.
is_relevant_weak_alone(repo) ==
    LET text == Words(repo)
    IN IF text \cap ExcludeKeywords # {} THEN FALSE
       ELSE IF text \cap StrongKeywords # {} THEN TRUE
       ELSE IF text \cap WeakKeywords # {} THEN TRUE
       ELSE FALSE

\* RelevanceFilter.is_relevant
is_relevant(repo) ==
    LET text == Words(repo)
    IN IF text \cap ExcludeKeywords # {} THEN FALSE
       ELSE IF text \cap StrongKeywords # {} THEN TRUE
       ELSE IF text \cap ImageContext # {} /\ text \cap WeakKeywords # {} THEN TRUE
       ELSE FALSE

\* RelevanceFilter.is_excluded: a term in the name, or opening the
\* description, or after "a" near its start.
is_excluded(repo) ==
    \E term \in ExcludeNameTerms :
        \/ term \in {lower(w) : w \in repo.name}
        \/ Len(repo.description) > 0 /\ lower(repo.description[1]) = term
        \/ \E i \in 1..(Len(repo.description) - 1) :
              lower(repo.description[i]) = "a" /\ lower(repo.description[i + 1]) = term

(***************************************************************************)
(* RUQueueManager (tracker.py).                                            *)
(***************************************************************************)
\* RUQueueManager.should_queue
should_queue(cands, r) ==
    IF r.status # HAS_WEIGHTS THEN FALSE
    ELSE IF ~Truthy(r.arxiv_id) THEN FALSE
    ELSE IF r.full_name \in DOMAIN cands
            /\ cands[r.full_name].status \in {"completed", "processing"} THEN FALSE
    ELSE TRUE

\* RUCandidate(...) as add_candidate builds it
NewCandidate(r, source, now) ==
    [full_name |-> r.full_name,
     arxiv_id |-> IF Truthy(r.arxiv_id) THEN r.arxiv_id ELSE "",
     added_at |-> now,
     source |-> source,
     status |-> "pending",
     notes |-> ""]

\* A mutant of add_candidate: a pending or skipped entry is created anew.
add_candidate_readds(cands, r, source, now) ==
    IF source = "auto" /\ ~should_queue(cands, r)
    THEN [added |-> FALSE, candidates |-> cands, repo |-> r]
    ELSE IF source = "manual" /\ r.status # HAS_WEIGHTS
    THEN [added |-> FALSE, candidates |-> cands, repo |-> r]
    ELSE IF r.full_name \in DOMAIN cands
            /\ cands[r.full_name].status \in {"completed", "processing"}
    THEN [added |-> FALSE, candidates |-> cands, repo |-> r]
    ELSE [added |-> TRUE,
          candidates |-> Put(cands, r.full_name, NewCandidate(r, source, now)),
          repo |-> [r EXCEPT !.ru_candidate = TRUE]]

\* A mutant of add_candidate: the manual path checks nothing.
add_candidate_manual_unchecked(cands, r, source, now) ==
    IF source = "auto" /\ ~should_queue(cands, r)
    THEN [added |-> FALSE, candidates |-> cands, repo |-> r]
    ELSE IF r.full_name \in DOMAIN cands
    THEN [added |-> FALSE, candidates |-> cands, repo |-> r]
    ELSE [added |-> TRUE,
          candidates |-> Put(cands, r.full_name, NewCandidate(r, source, now)),
          repo |-> [r EXCEPT !.ru_candidate = TRUE]]

\* RUQueueManager.add_candidate: the return value, the queue and the record
\* after the call.
add_candidate(cands, r, source, now) ==
    IF source = "auto" /\ ~should_queue(cands, r)
    THEN [added |-> FALSE, candidates |-> cands, repo |-> r]
    ELSE IF source = "manual" /\ r.status # HAS_WEIGHTS
    THEN [added |-> FALSE, candidates |-> cands, repo |-> r]
    ELSE IF r.full_name \in DOMAIN cands
    THEN [added |-> FALSE, candidates |-> cands, repo |-> r]
    ELSE [added |-> TRUE,
          candidates |-> Put(cands, r.full_name, NewCandidate(r, source, now)),
          repo |-> [r EXCEPT !.ru_candidate = TRUE]]

\* A mutant of update_status: a completed entry keeps its status.
queue_update_status_final(cands, full_name, status, notes) ==
    IF full_name \in DOMAIN cands /\ cands[full_name].status # "completed"
    THEN [cands EXCEPT ![full_name] =
             [@ EXCEPT !.status = status,
                       !.notes = IF notes # "" THEN notes ELSE @]]
    ELSE cands

\* RUQueueManager.update_status: notes are written only when not empty.
queue_update_status(cands, full_name, status, notes) ==
    IF full_name \in DOMAIN cands
    THEN [cands EXCEPT ![full_name] =
             [@ EXCEPT !.status = status,
                       !.notes = IF notes # "" THEN notes ELSE @]]
    ELSE cands

\* RUQueueManager.remove_candidate
remove_candidate(cands, full_name) ==
    IF full_name \in DOMAIN cands
    THEN [removed |-> TRUE, candidates |-> Del(cands, full_name)]
    ELSE [removed |-> FALSE, candidates |-> cands]

\* RUQueueManager.get_pending, as the set of its identities
get_pending(cands) == {n \in DOMAIN cands : cands[n].status = "pending"}

(***************************************************************************)
(* RepoInfo construction and serialization (models.py).                    *)
(***************************************************************************)
\* RepoState(value): the member with that .value
StateValue(s) ==
    CASE s = HAS_WEIGHTS -> "has_weights"
      [] s = COMING_SOON -> "coming_soon"
      [] s = NO_WEIGHTS -> "no_weights"

StateOfValue(v) ==
    CASE v = "has_weights" -> HAS_WEIGHTS
      [] v = "coming_soon" -> COMING_SOON
      [] v = "no_weights" -> NO_WEIGHTS

\* RepoInfo.from_github_repo: every tracking field takes its default, then
\* __post_init__ dates the record.
from_github_repo(repo, now) ==
    post_init([full_name |-> repo.full_name,
               stars |-> repo.stargazers_count,
               description |-> repo.description,
               status |-> NO_WEIGHTS,
               last_checked |-> NoDate,
               status_changed_date |-> NoDate,
               previous_status |-> Null,
               weight_status |-> "None",
               weight_confidence |-> "none",
               weight_details |-> {},
               conference |-> Null,
               conference_year |-> Null,
               arxiv_id |-> Null,
               coming_soon_detected |-> FALSE,
               coming_soon_details |-> {},
               ru_candidate |-> FALSE], now)

\* A mutant of to_dict: previous_status is not written.
to_dict_drops_previous(r) ==
    [r EXCEPT !.status = StateValue(r.status), !.previous_status = Null]

\* RepoInfo.to_dict: the states become their value strings.
to_dict(r) ==
    [r EXCEPT !.status = StateValue(r.status),
              !.previous_status =
                  IF r.previous_status # Null THEN StateValue(r.previous_status) ELSE Null]

\* RepoInfo.from_dict
from_dict(data, now) ==
    post_init([data EXCEPT
        !.status = IF Truthy(data.status) THEN StateOfValue(data.status) ELSE NO_WEIGHTS,
        !.previous_status =
            IF Truthy(data.previous_status) THEN StateOfValue(data.previous_status) ELSE Null],
        now)

\* RUCandidate.to_dict
RUCandidate_to_dict(c) ==
    [full_name |-> c.full_name, arxiv_id |-> c.arxiv_id, added_at |-> c.added_at,
     source |-> c.source, status |-> c.status, notes |-> c.notes]

\* RUCandidate.from_dict
RUCandidate_from_dict(d) ==
    [full_name |-> d.full_name, arxiv_id |-> d.arxiv_id, added_at |-> d.added_at,
     source |-> d.source, status |-> d.status, notes |-> d.notes]

(***************************************************************************)
(* PaperTracker (tracker.py): the operations on the store and the queue.   *)
(* A tracker state st holds repos, candidates and the three run lists.     *)
(***************************************************************************)
\* A mutant of the automatic promotion: a qualifying record's entry is
\* written whether or not one exists.
auto_queue_overwrites(cands, r, now) ==
    IF should_queue(cands, r)
    THEN [added |-> TRUE,
          candidates |-> Put(cands, r.full_name, NewCandidate(r, "auto", now)),
          repo |-> [r EXCEPT !.ru_candidate = TRUE]]
    ELSE [added |-> FALSE, candidates |-> cands, repo |-> r]

\* A mutant of the automatic promotion: a record that was a candidate once
\* is not promoted again.
auto_queue_remembers(cands, r, now) ==
    IF should_queue(cands, r) /\ ~r.ru_candidate
    THEN add_candidate(cands, r, "auto", now)
    ELSE [added |-> FALSE, candidates |-> cands, repo |-> r]

\* "if self.ru_queue.should_queue(r): self.ru_queue.add_candidate(r, "auto")"
auto_queue(cands, r, now) ==
    IF should_queue(cands, r)
    THEN add_candidate(cands, r, "auto", now)
    ELSE [added |-> FALSE, candidates |-> cands, repo |-> r]

\* A mutant of the state computation: promise language is looked at first.
new_status_promise_first(weight_status, detected) ==
    IF detected THEN COMING_SOON
    ELSE IF weight_status # "None" THEN HAS_WEIGHTS
    ELSE NO_WEIGHTS

\* "Determine new status" of _update_repo_detection
new_status(weight_status, detected) ==
    IF weight_status # "None" THEN HAS_WEIGHTS
    ELSE IF detected THEN COMING_SOON
    ELSE NO_WEIGHTS

\* PaperTracker._update_repo_detection: the record and the queue after it.
update_repo_detection(cands, repo_info, readme, now) ==
    LET weight_result == WeightDetector_detect(readme)
        conf_result == ConferenceDetector_detect(readme, repo_info.description)
        coming_soon_result == ComingSoonDetector_detect(readme)
        r1 == [repo_info EXCEPT !.weight_status = weight_result.status,
                                !.weight_confidence = weight_result.confidence,
                                !.weight_details = weight_result.details,
                                !.conference = conf_result.conference,
                                !.conference_year = conf_result.year,
                                !.arxiv_id = conf_result.arxiv_id,
                                !.coming_soon_detected = coming_soon_result.detected,
                                !.coming_soon_details = coming_soon_result.details]
        r2 == update_status(r1, new_status(weight_result.status, coming_soon_result.detected), now)
    IN auto_queue(cands, r2, now)

\* A mutant of Case A: the full detection is run again.
case_a_redetects(cands, existing, readme, now) ==
    update_repo_detection(cands, existing, readme, now)

\* A mutant of Case A: an empty README leaves the venue fields as they were.
case_a_keeps_on_empty(cands, existing, readme, now) ==
    LET conf_result == ConferenceDetector_detect(readme, existing.description)
        r1 == IF readme = EmptyReadme
              THEN [existing EXCEPT !.last_checked = now]
              ELSE [existing EXCEPT !.conference = conf_result.conference,
                                    !.conference_year = conf_result.year,
                                    !.arxiv_id = conf_result.arxiv_id,
                                    !.last_checked = now]
    IN auto_queue(cands, r1, now)

\* A mutant of Case A: the record is updated and not offered to the queue.
case_a_no_promotion(cands, existing, readme, now) ==
    LET conf_result == ConferenceDetector_detect(readme, existing.description)
        r1 == [existing EXCEPT !.conference = conf_result.conference,
                               !.conference_year = conf_result.year,
                               !.arxiv_id = conf_result.arxiv_id,
                               !.last_checked = now]
    IN [added |-> FALSE, candidates |-> cands, repo |-> r1]

\* A mutant of Case A: the promise detector runs as well.
case_a_rechecks_promise(cands, existing, readme, now) ==
    LET conf_result == ConferenceDetector_detect(readme, existing.description)
        coming_soon_result == ComingSoonDetector_detect(readme)
        r1 == [existing EXCEPT !.conference = conf_result.conference,
                               !.conference_year = conf_result.year,
                               !.arxiv_id = conf_result.arxiv_id,
                               !.coming_soon_detected = coming_soon_result.detected,
                               !.coming_soon_details = coming_soon_result.details,
                               !.last_checked = now]
    IN auto_queue(cands, r1, now)

\* Case A of _process_repo_with_delta: only the conference detector runs.
case_a(cands, existing, readme, now) ==
    LET conf_result == ConferenceDetector_detect(readme, existing.description)
        r1 == [existing EXCEPT !.conference = conf_result.conference,
                               !.conference_year = conf_result.year,
                               !.arxiv_id = conf_result.arxiv_id,
                               !.last_checked = now]
    IN auto_queue(cands, r1, now)

\* "self.repos[full_name] = repo_info"
store_new(repos, full_name, r) == Put(repos, full_name, r)

\* A mutant of the delta logic: a NO_WEIGHTS record that gains weights is
\* listed as a fresh release too.
process_repo_with_delta_fresh_any(st, repo_data, readme, now) ==
    LET full_name == repo_data.full_name IN
    IF is_excluded(repo_data) THEN st
    ELSE IF ~is_relevant(repo_data) THEN st
    ELSE IF full_name \in DOMAIN st.repos
    THEN LET existing == [st.repos[full_name] EXCEPT !.stars = repo_data.stargazers_count]
         IN IF existing.status = HAS_WEIGHTS
            THEN LET a == case_a(st.candidates, existing, readme, now)
                 IN [st EXCEPT !.repos = Put(st.repos, full_name, a.repo),
                               !.candidates = a.candidates]
            ELSE IF existing.status = COMING_SOON
            THEN LET b == update_repo_detection(st.candidates, existing, readme, now)
                     isFresh == b.repo.status = HAS_WEIGHTS
                 IN [st EXCEPT !.repos = Put(st.repos, full_name, b.repo),
                               !.candidates = b.candidates,
                               !.fresh_releases =
                                   IF isFresh THEN Append(@, full_name) ELSE @,
                               !.watchlist_updates =
                                   IF isFresh THEN Append(@, full_name) ELSE @]
            ELSE LET c == update_repo_detection(st.candidates, existing, readme, now)
                 IN [st EXCEPT !.repos = Put(st.repos, full_name, c.repo),
                               !.candidates = c.candidates,
                               !.fresh_releases =
                                   IF c.repo.status = HAS_WEIGHTS
                                   THEN Append(@, full_name) ELSE @]
    ELSE LET d == update_repo_detection(st.candidates,
                                        from_github_repo(repo_data, now), readme, now)
         IN [st EXCEPT !.repos = store_new(st.repos, full_name, d.repo),
                       !.candidates = d.candidates,
                       !.new_repos = Append(@, full_name)]

\* A mutant of the delta logic: the exclusion terms are not consulted.
process_repo_with_delta_no_exclusion(st, repo_data, readme, now) ==
    LET full_name == repo_data.full_name IN
    IF ~is_relevant(repo_data) THEN st
    ELSE IF full_name \in DOMAIN st.repos
    THEN LET existing == [st.repos[full_name] EXCEPT !.stars = repo_data.stargazers_count]
         IN IF existing.status = HAS_WEIGHTS
            THEN LET a == case_a(st.candidates, existing, readme, now)
                 IN [st EXCEPT !.repos = Put(st.repos, full_name, a.repo),
                               !.candidates = a.candidates]
            ELSE IF existing.status = COMING_SOON
            THEN LET b == update_repo_detection(st.candidates, existing, readme, now)
                     isFresh == b.repo.status = HAS_WEIGHTS
                 IN [st EXCEPT !.repos = Put(st.repos, full_name, b.repo),
                               !.candidates = b.candidates,
                               !.fresh_releases =
                                   IF isFresh THEN Append(@, full_name) ELSE @,
                               !.watchlist_updates =
                                   IF isFresh THEN Append(@, full_name) ELSE @]
            ELSE LET c == update_repo_detection(st.candidates, existing, readme, now)
                 IN [st EXCEPT !.repos = Put(st.repos, full_name, c.repo),
                               !.candidates = c.candidates]
    ELSE LET d == update_repo_detection(st.candidates,
                                        from_github_repo(repo_data, now), readme, now)
         IN [st EXCEPT !.repos = store_new(st.repos, full_name, d.repo),
                       !.candidates = d.candidates,
                       !.new_repos = Append(@, full_name)]

\* PaperTracker._process_repo_with_delta
process_repo_with_delta(st, repo_data, readme, now) ==
    LET full_name == repo_data.full_name IN
    IF is_excluded(repo_data) THEN st
    ELSE IF ~is_relevant(repo_data) THEN st
    ELSE IF full_name \in DOMAIN st.repos
    THEN LET existing == [st.repos[full_name] EXCEPT !.stars = repo_data.stargazers_count]
         IN IF existing.status = HAS_WEIGHTS
            THEN LET a == case_a(st.candidates, existing, readme, now)
                 IN [st EXCEPT !.repos = Put(st.repos, full_name, a.repo),
                               !.candidates = a.candidates]
            ELSE IF existing.status = COMING_SOON
            THEN LET b == update_repo_detection(st.candidates, existing, readme, now)
                     isFresh == b.repo.status = HAS_WEIGHTS
                 IN [st EXCEPT !.repos = Put(st.repos, full_name, b.repo),
                               !.candidates = b.candidates,
                               !.fresh_releases =
                                   IF isFresh THEN Append(@, full_name) ELSE @,
                               !.watchlist_updates =
                                   IF isFresh THEN Append(@, full_name) ELSE @]
            ELSE LET c == update_repo_detection(st.candidates, existing, readme, now)
                 IN [st EXCEPT !.repos = Put(st.repos, full_name, c.repo),
                               !.candidates = c.candidates]
    ELSE LET d == update_repo_detection(st.candidates,
                                        from_github_repo(repo_data, now), readme, now)
         IN [st EXCEPT !.repos = store_new(st.repos, full_name, d.repo),
                       !.candidates = d.candidates,
                       !.new_repos = Append(@, full_name)]

\* A mutant of the intake: the repository goes through the delta logic.
process_issue_repo_gated(st, repo_data, readme, now) ==
    process_repo_with_delta(st, repo_data, readme, now)

\* PaperTracker._process_issue_repo: no relevance gate, no look at the store.
process_issue_repo(st, repo_data, readme, now) ==
    IF repo_data.full_name = NoName THEN st
    ELSE LET d == update_repo_detection(st.candidates,
                                        from_github_repo(repo_data, now), readme, now)
         IN [st EXCEPT !.repos = store_new(st.repos, repo_data.full_name, d.repo),
                       !.candidates = d.candidates,
                       !.new_repos = Append(@, repo_data.full_name)]

\* A mutant of the sweep: no promotion is attempted.
sweep_skips(repos, cands, todo, now) == [repos |-> repos, candidates |-> cands]

\* The sweep of load_history over the loaded records, one record at a time.
RECURSIVE sweep(_, _, _, _)
sweep(repos, cands, todo, now) ==
    IF todo = {} THEN [repos |-> repos, candidates |-> cands]
    ELSE LET n == CHOOSE x \in todo : TRUE
             q == auto_queue(cands, repos[n], now)
         IN sweep(Put(repos, n, q.repo), q.candidates, todo \ {n}, now)

\* PaperTracker.load_history: a file is its existence and the dicts of its
\* "repos" list.
load_history(repos, cands, file, now) ==
    IF ~file.exists THEN [repos |-> repos, candidates |-> cands, loaded |-> FALSE]
    ELSE LET loadedRepos ==
                 [n \in (DOMAIN repos) \cup {d.full_name : d \in file.repos} |->
                     IF \E d \in file.repos : d.full_name = n
                     THEN from_dict(CHOOSE d \in file.repos : d.full_name = n, now)
                     ELSE repos[n]]
             s == sweep(loadedRepos, cands, DOMAIN loadedRepos, now)
         IN [repos |-> s.repos, candidates |-> s.candidates, loaded |-> TRUE]

\* The snapshot save_history writes: the in-memory records, nothing else.
\* (Its summary block is computed anew on every save and never read back.)
snapshot(repos) == [exists |-> TRUE, repos |-> {to_dict(repos[n]) : n \in DOMAIN repos}]

\* RUQueueManager.save
queue_snapshot(cands) ==
    [exists |-> TRUE, candidates |-> {RUCandidate_to_dict(cands[n]) : n \in DOMAIN cands}]

\* RUQueueManager._load
queue_load(file) ==
    IF ~file.exists THEN EmptyMap
    ELSE [n \in {d.full_name : d \in file.candidates} |->
             RUCandidate_from_dict(CHOOSE d \in file.candidates : d.full_name = n)]

\* PaperTracker.get_summary, the counts the claims speak of
get_summary(repos, cands, new_repos, now) ==
    [total |-> Cardinality(DOMAIN repos),
     with_weights |-> Cardinality({n \in DOMAIN repos : repos[n].status = HAS_WEIGHTS}),
     coming_soon |-> Cardinality({n \in DOMAIN repos : repos[n].status = COMING_SOON}),
     fresh_releases |->
         Cardinality({n \in DOMAIN repos : is_fresh_release(repos[n], FreshDays, now)}),
     new_this_run |-> Len(new_repos),
     ru_pending |-> Cardinality(get_pending(cands)),
     ru_total |-> Cardinality(DOMAIN cands)]

(***************************************************************************)
(* The environment: what GitHub serves and what users submit.              *)
(***************************************************************************)
\* What get_readme can return for a repository: the README it has at that
\* time, or EmptyReadme when the fetch fails.
Readmes ==
    {EmptyReadme, {"promise"}, {"hf", "arxiv"}, {"cloud", "promise"},
     {"text", "arxiv", "venue"}}
PlainReadmes == {EmptyReadme}
ReadmeChoices(full_name) == IF full_name = AB THEN Readmes ELSE PlainReadmes

\* The name, description and topics a search result or a repository page
\* carries.
Description == <<"restoration", "code">>
MetaRelevant == [name |-> {"super-resolution"}, description |-> Description, topics |-> {}]
MetaWeak == [name |-> {"net"}, description |-> Description, topics |-> {"image", "denoising"}]
MetaAudio == [name |-> {"audio", "super-resolution"}, description |-> Description, topics |-> {}]
MetaAwesome == [name |-> {"awesome", "super-resolution"}, description |-> Description, topics |-> {}]
Metas == {MetaRelevant, MetaWeak, MetaAudio, MetaAwesome}
StarChoices == {10}

RepoData(full_name, meta, stars) ==
    [full_name |-> full_name, name |-> meta.name, description |-> meta.description,
     topics |-> meta.topics, stargazers_count |-> stars]

\* A submitted URL, as url.split("/") cuts it.
UrlAB == <<"https:", "", "github.com", "a", "b", "">>
UrlAlias == <<"https:", "", "github.com", "A", "B">>
UrlCD == <<"https:", "", "github.com", "c", "d">>
UrlBad == <<"github.com">>
Urls == {UrlAB, UrlAlias, UrlCD, UrlBad}

\* The repository GitHub serves for /repos/{owner}/{repo}: paths are matched
\* without regard to case and the page carries the canonical full_name.
Served(owner, repo) ==
    IF <<owner, repo>> \in {AB, <<"A", "B">>} THEN {AB}
    ELSE IF <<owner, repo>> = CD THEN {CD}
    ELSE {}

\* url.rstrip("/").split("/")
RECURSIVE rstrip_split(_)
rstrip_split(url) ==
    IF url # <<>> /\ url[Len(url)] = ""
    THEN rstrip_split(SubSeq(url, 1, Len(url) - 1))
    ELSE url

\* The lists one discovery pass can return (identities; NoName is a result
\* without a full_name).
RECURSIVE SeqsUpTo(_, _)
SeqsUpTo(S, n) ==
    IF n = 0 THEN {<<>>}
    ELSE LET shorter == SeqsUpTo(S, n - 1)
         IN shorter \cup {Append(q, x) : q \in {t \in shorter : Len(t) = n - 1}, x \in S}
ResultLists == SeqsUpTo(Names \cup {NoName}, MaxResults)

\* A mutant of the seen-set test: only results without a name are skipped.
already_seen_forgets(full_name, seen) == full_name = NoName

\* "if not full_name or full_name in seen_this_run: continue"
already_seen(full_name, seen) == full_name = NoName \/ full_name \in seen

(***************************************************************************)
(* The state.                                                              *)
(***************************************************************************)
VARIABLES
    today,              \* the day datetime.now() reports
    pc,                 \* where main() stands; "idle" when no process runs
    repos,              \* PaperTracker.repos
    candidates,         \* RUQueueManager.candidates
    fresh_releases,     \* PaperTracker._fresh_releases
    new_repos,          \* PaperTracker._new_repos
    watchlist_updates,  \* PaperTracker._watchlist_updates
    historyFile,        \* history.json
    queueFile,          \* ru_queue.yaml
    issueFile,          \* repos_from_issues.yaml: the URLs of its "repos" list
    urls,               \* process_issue_repos: the URLs still to handle
    processed,          \* process_issue_repos: its counter
    seen_this_run,      \* search: the seen-set
    all_results,        \* search: the results of the query still to handle
    query,              \* search: the index of the query being run
    calls,              \* history: the calls of _process_repo_with_delta per identity, this run
    returned,           \* history: the identities the passes of this run returned
    doc,                \* history: what GitHub held for the repository the last step
                        \* of a loop handled
    rec,                \* a RepoInfo on its own (record specification)
    call                \* the last call on a component taken on its own, with
                        \* what it gave back (queue, request, filter, cache)

runVars == <<fresh_releases, new_repos, watchlist_updates, urls, processed,
             seen_this_run, all_results, query, calls, returned, doc>>
fileVars == <<historyFile, queueFile, issueFile>>
vars == <<today, pc, repos, candidates, fresh_releases, new_repos, watchlist_updates,
          historyFile, queueFile, issueFile, urls, processed, seen_this_run,
          all_results, query, calls, returned, doc, rec, call>>

State ==
    [repos |-> repos, candidates |-> candidates, fresh_releases |-> fresh_releases,
     new_repos |-> new_repos, watchlist_updates |-> watchlist_updates]

NoCalls == [n \in Names |-> 0]
NoFile == [exists |-> FALSE, repos |-> {}]
NoQueueFile == [exists |-> FALSE, candidates |-> {}]

\* a RepoInfo built with the dataclass defaults on day `now`
DefaultRecord(now) ==
    from_github_repo(RepoData(AB, MetaRelevant, 10), now)

\* no repository handled yet
NoDoc == [op |-> "none"]

\* a URL the intake passed over: not a URL ("invalid"), an identity already
\* in the store ("tracked"), or no answer from get_repo_details ("fetch")
Skipped(why) == [op |-> "skipped", why |-> why]

\* The repository a step handles: its identity, what the relevance filter
\* answers for its metadata, the documentation GitHub holds for it and
\* whether the step asks for it (the intake always does, the delta logic
\* after its two filter returns).
Doc(op, repo_data, readme) ==
    [op |-> op,
     full_name |-> repo_data.full_name,
     excluded |-> is_excluded(repo_data),
     relevant |-> is_relevant(repo_data),
     accepted |-> ~is_excluded(repo_data) /\ is_relevant(repo_data),
     fetched |-> op = "issue" \/ (~is_excluded(repo_data) /\ is_relevant(repo_data)),
     readme |-> readme]

NoCall == [op |-> "none", repo |-> DefaultRecord(0), source |-> "", ret |-> FALSE]

\* PaperTracker() before load_history: nothing tracked, no run lists.
FreshMemory ==
    /\ repos = EmptyMap
    /\ candidates = EmptyMap
    /\ fresh_releases = <<>>
    /\ new_repos = <<>>
    /\ watchlist_updates = <<>>
    /\ urls = <<>>
    /\ processed = 0
    /\ seen_this_run = {}
    /\ all_results = <<>>
    /\ query = 0
    /\ calls = NoCalls
    /\ returned = {}
    /\ doc = NoDoc

Init ==
    /\ today = 0
    /\ pc = "idle"
    /\ FreshMemory
    /\ historyFile = NoFile
    /\ queueFile = NoQueueFile
    /\ issueFile = <<>>
    /\ rec = DefaultRecord(0)
    /\ call = NoCall

(***************************************************************************)
(* The tracker specification: runs of "python -m paper_tracker --history   *)
(* data/history.json", one process at a time, with the files they share.   *)
(***************************************************************************)
\* the process ends: its memory is gone
ProcessExit ==
    /\ pc' = "idle"
    /\ repos' = EmptyMap
    /\ candidates' = EmptyMap
    /\ fresh_releases' = <<>>
    /\ new_repos' = <<>>
    /\ watchlist_updates' = <<>>
    /\ urls' = <<>>
    /\ processed' = 0
    /\ seen_this_run' = {}
    /\ all_results' = <<>>
    /\ query' = 0
    /\ calls' = NoCalls
    /\ returned' = {}
    /\ doc' = NoDoc

\* the tracker state st becomes the state of the process
Becomes(st) ==
    /\ repos' = st.repos
    /\ candidates' = st.candidates
    /\ fresh_releases' = st.fresh_releases
    /\ new_repos' = st.new_repos
    /\ watchlist_updates' = st.watchlist_updates

\* A day passes.
Tick ==
    /\ today < MaxDay
    /\ today' = today + 1
    /\ UNCHANGED <<pc, repos, candidates, runVars, fileVars, rec, call>>

\* A user's issue adds a URL to the intake file (between runs).
SubmitIssue ==
    /\ pc = "idle"
    /\ Len(issueFile) < MaxIssues
    /\ \E url \in Urls : issueFile' = Append(issueFile, url)
    /\ UNCHANGED <<today, pc, repos, candidates, runVars, historyFile, queueFile, rec, call>>

\* main: PaperTracker(...), whose RUQueueManager loads the queue file.
Construct ==
    /\ pc = "idle"
    /\ pc' = "constructed"
    /\ candidates' = queue_load(queueFile)
    /\ UNCHANGED <<today, repos, runVars, fileVars, rec, call>>

\* main: tracker.load_history(args.history)
LoadHistory ==
    /\ pc = "constructed"
    /\ pc' = "loaded"
    /\ LET l == load_history(repos, candidates, historyFile, today)
       IN /\ repos' = l.repos
          /\ candidates' = l.candidates
    /\ UNCHANGED <<today, runVars, fileVars, rec, call>>

\* main --list-ru: prints and returns.
ListRu ==
    /\ pc = "loaded"
    /\ ProcessExit
    /\ UNCHANGED <<today, fileVars, rec, call>>

\* PaperTracker.add_to_ru_queue
add_to_ru_queue(st, full_name, now) ==
    IF full_name \notin DOMAIN st.repos THEN st
    ELSE LET a == add_candidate(st.candidates, st.repos[full_name], "manual", now)
         IN [st EXCEPT !.repos = Put(st.repos, full_name, a.repo),
                       !.candidates = a.candidates]

\* PaperTracker.remove_from_ru_queue
remove_from_ru_queue(st, full_name) ==
    LET r == remove_candidate(st.candidates, full_name)
    IN IF r.removed
       THEN [st EXCEPT !.candidates = r.candidates,
                       !.repos = IF full_name \in DOMAIN st.repos
                                 THEN [@ EXCEPT ![full_name].ru_candidate = FALSE]
                                 ELSE @]
       ELSE st

\* main --add-ru REPO: add_to_ru_queue, then only the queue is saved.
AddRu ==
    /\ pc = "loaded"
    /\ \E n \in Names :
          queueFile' = queue_snapshot(add_to_ru_queue(State, n, today).candidates)
    /\ ProcessExit
    /\ UNCHANGED <<today, historyFile, issueFile, rec, call>>

\* main --remove-ru REPO: remove_from_ru_queue, then only the queue is saved.
RemoveRu ==
    /\ pc = "loaded"
    /\ \E n \in Names :
          queueFile' = queue_snapshot(remove_from_ru_queue(State, n).candidates)
    /\ ProcessExit
    /\ UNCHANGED <<today, historyFile, issueFile, rec, call>>

\* main --ru-status REPO STATUS: update_status without notes, then the
\* queue is saved.
RuStatus ==
    /\ pc = "loaded"
    /\ \E n \in Names, status \in {"completed"} :
          queueFile' = queue_snapshot(queue_update_status(candidates, n, status, ""))
    /\ ProcessExit
    /\ UNCHANGED <<today, historyFile, issueFile, rec, call>>

\* process_issue_repos: the URLs are loaded; with none it returns at once.
IntakeBegin ==
    /\ pc = "loaded"
    /\ urls' = issueFile
    /\ processed' = 0
    /\ pc' = IF issueFile = <<>> THEN "search" ELSE "intake"
    /\ UNCHANGED <<today, repos, candidates, fresh_releases, new_repos, watchlist_updates,
                   seen_this_run, all_results, query, calls, returned, doc, fileVars,
                   rec, call>>

\* A mutant of the intake loop: an invalid URL ends the batch.
IntakeUrl_breaks_on_invalid ==
    /\ pc = "intake"
    /\ urls # <<>>
    /\ urls' = IF Len(rstrip_split(Head(urls))) < 2 THEN <<>> ELSE Tail(urls)
    /\ LET parts == rstrip_split(Head(urls)) IN
       IF Len(parts) < 2
       THEN \* invalid URL
            /\ doc' = Skipped("invalid")
            /\ UNCHANGED <<repos, candidates, fresh_releases, new_repos, watchlist_updates,
                           processed>>
       ELSE LET owner == parts[Len(parts) - 1]
                repo == parts[Len(parts)]
                full_name == <<owner, repo>>
            IN IF full_name \in DOMAIN repos
               THEN \* already tracked
                    /\ doc' = Skipped("tracked")
                    /\ UNCHANGED <<repos, candidates, fresh_releases, new_repos,
                                   watchlist_updates, processed>>
               ELSE \/ \* get_repo_details returns None
                       /\ doc' = Skipped("fetch")
                       /\ UNCHANGED <<repos, candidates, fresh_releases, new_repos,
                                      watchlist_updates, processed>>
                    \/ \E served \in Served(owner, repo), meta \in Metas,
                          stars \in StarChoices :
                        \E readme \in ReadmeChoices(served) :
                          /\ Becomes(process_issue_repo(
                                 State, RepoData(served, meta, stars), readme, today))
                          /\ processed' = processed + 1
                          /\ doc' = Doc("issue", RepoData(served, meta, stars), readme)
    /\ UNCHANGED <<today, pc, seen_this_run, all_results, query, calls, returned,
                   fileVars, rec, call>>

\* process_issue_repos: one URL of the loop.
IntakeUrl ==
    /\ pc = "intake"
    /\ urls # <<>>
    /\ urls' = Tail(urls)
    /\ LET parts == rstrip_split(Head(urls)) IN
       IF Len(parts) < 2
       THEN \* invalid URL
            /\ doc' = Skipped("invalid")
            /\ UNCHANGED <<repos, candidates, fresh_releases, new_repos, watchlist_updates,
                           processed>>
       ELSE LET owner == parts[Len(parts) - 1]
                repo == parts[Len(parts)]
                full_name == <<owner, repo>>
            IN IF full_name \in DOMAIN repos
               THEN \* already tracked
                    /\ doc' = Skipped("tracked")
                    /\ UNCHANGED <<repos, candidates, fresh_releases, new_repos,
                                   watchlist_updates, processed>>
               ELSE \/ \* get_repo_details returns None
                       /\ doc' = Skipped("fetch")
                       /\ UNCHANGED <<repos, candidates, fresh_releases, new_repos,
                                      watchlist_updates, processed>>
                    \/ \E served \in Served(owner, repo), meta \in Metas,
                          stars \in StarChoices :
                        \E readme \in ReadmeChoices(served) :
                          /\ Becomes(process_issue_repo(
                                 State, RepoData(served, meta, stars), readme, today))
                          /\ processed' = processed + 1
                          /\ doc' = Doc("issue", RepoData(served, meta, stars), readme)
    /\ UNCHANGED <<today, pc, seen_this_run, all_results, query, calls, returned,
                   fileVars, rec, call>>

\* A mutant of the end of the intake: the file is cleared only when a
\* repository was added.
IntakeEnd_if_processed ==
    /\ pc = "intake"
    /\ urls = <<>>
    /\ issueFile' = IF processed > 0 THEN <<>> ELSE issueFile
    /\ pc' = "search"
    /\ UNCHANGED <<today, repos, candidates, runVars, historyFile, queueFile, rec, call>>

\* process_issue_repos: after the loop the intake file is cleared.
IntakeEnd ==
    /\ pc = "intake"
    /\ urls = <<>>
    /\ issueFile' = <<>>
    /\ pc' = "search"
    /\ UNCHANGED <<today, repos, candidates, runVars, historyFile, queueFile, rec, call>>

\* search: the run lists and the seen-set are reset; the first query starts.
SearchBegin ==
    /\ pc = "search"
    /\ fresh_releases' = <<>>
    /\ new_repos' = <<>>
    /\ watchlist_updates' = <<>>
    /\ seen_this_run' = {}
    /\ all_results' = <<>>
    /\ calls' = NoCalls
    /\ returned' = {}
    /\ doc' = NoDoc
    /\ query' = 1
    /\ pc' = IF NumQueries >= 1 THEN "pass_stars" ELSE "search_done"
    /\ UNCHANGED <<today, repos, candidates, urls, processed, fileVars, rec, call>>

\* The discovery pass the engine is written against: it takes the query, the
\* floors, the cap and the sort order and returns a list of repositories.
search_repos(results) == results

\* search: pass 1 of the query (sort="stars").
PassStars ==
    /\ pc = "pass_stars"
    /\ \E results \in ResultLists :
          /\ all_results' = search_repos(results)
          /\ returned' = returned \cup ({results[i] : i \in DOMAIN results} \ {NoName})
    /\ pc' = "pass_updated"
    /\ UNCHANGED <<today, repos, candidates, fresh_releases, new_repos, watchlist_updates,
                   urls, processed, seen_this_run, query, calls, doc, fileVars, rec, call>>

\* search: pass 2 of the query (sort="updated").
PassUpdated ==
    /\ pc = "pass_updated"
    /\ \E results \in ResultLists :
          /\ all_results' = all_results \o search_repos(results)
          /\ returned' = returned \cup ({results[i] : i \in DOMAIN results} \ {NoName})
    /\ pc' = "process"
    /\ UNCHANGED <<today, repos, candidates, fresh_releases, new_repos, watchlist_updates,
                   urls, processed, seen_this_run, query, calls, doc, fileVars, rec, call>>

\* search: one result of "for repo_data in all_results".
ProcessResult ==
    /\ pc = "process"
    /\ all_results # <<>>
    /\ all_results' = Tail(all_results)
    /\ LET full_name == Head(all_results) IN
       IF already_seen(full_name, seen_this_run)
       THEN /\ doc' = NoDoc
            /\ UNCHANGED <<repos, candidates, fresh_releases, new_repos, watchlist_updates,
                           seen_this_run, calls>>
       ELSE /\ seen_this_run' = seen_this_run \cup {full_name}
            /\ calls' = [calls EXCEPT ![full_name] = @ + 1]
            /\ \E meta \in Metas, stars \in StarChoices, readme \in ReadmeChoices(full_name) :
                  /\ Becomes(process_repo_with_delta(
                         State, RepoData(full_name, meta, stars), readme, today))
                  /\ doc' = Doc("delta", RepoData(full_name, meta, stars), readme)
    /\ UNCHANGED <<today, pc, urls, processed, query, returned, fileVars, rec, call>>

\* search: the query's results are done; the next query, or the return.
NextQuery ==
    /\ pc = "process"
    /\ all_results = <<>>
    /\ IF query < NumQueries
       THEN query' = query + 1 /\ pc' = "pass_stars"
       ELSE query' = query /\ pc' = "search_done"
    /\ doc' = NoDoc
    /\ UNCHANGED <<today, repos, candidates, fresh_releases, new_repos, watchlist_updates,
                   urls, processed, seen_this_run, all_results, calls, returned,
                   fileVars, rec, call>>

\* main: tracker.save_history(args.history), which saves the queue too.
SaveHistory ==
    /\ pc = "search_done"
    /\ historyFile' = snapshot(repos)
    /\ queueFile' = queue_snapshot(candidates)
    /\ pc' = "saved"
    /\ UNCHANGED <<today, repos, candidates, runVars, issueFile, rec, call>>

\* main returns.
Exit ==
    /\ pc = "saved"
    /\ ProcessExit
    /\ UNCHANGED <<today, fileVars, rec, call>>

Next ==
    \/ Tick
    \/ SubmitIssue
    \/ Construct
    \/ LoadHistory
    \/ ListRu
    \/ AddRu
    \/ RemoveRu
    \/ RuStatus
    \/ IntakeBegin
    \/ IntakeUrl
    \/ IntakeEnd
    \/ SearchBegin
    \/ PassStars
    \/ PassUpdated
    \/ ProcessResult
    \/ NextQuery
    \/ SaveHistory
    \/ Exit

Spec == Init /\ [][Next]_vars

(***************************************************************************)
(* The record specification: one RepoInfo, the calls of update_status on   *)
(* it and the passing days.                                                *)
(***************************************************************************)
\* RepoInfo(..., status=s) on day 0: __post_init__ fills the two dates.
InitRecord ==
    /\ today = 0
    /\ pc = "record"
    /\ FreshMemory
    /\ historyFile = NoFile
    /\ queueFile = NoQueueFile
    /\ issueFile = <<>>
    /\ \E s \in RepoState : rec = [DefaultRecord(0) EXCEPT !.status = s]
    /\ call = NoCall

\* repo.update_status(new_status)
RecUpdateStatus ==
    /\ \E s \in RepoState :
          /\ rec' = update_status(rec, s, today)
          /\ call' = [op |-> "update_status", repo |-> rec, source |-> s, ret |-> FALSE]
    /\ UNCHANGED <<today, pc, repos, candidates, runVars, fileVars>>

\* A day passes.
RecTick ==
    /\ today < MaxRecDay
    /\ today' = today + 1
    /\ UNCHANGED <<pc, repos, candidates, runVars, fileVars, rec, call>>

NextRecord ==
    \/ RecUpdateStatus
    \/ RecTick

SpecRecord == InitRecord /\ [][NextRecord]_vars

(***************************************************************************)
(* The queue specification: one RUQueueManager and the calls its callers   *)
(* can make, with any record as the argument.                              *)
(***************************************************************************)
\* the records add_candidate can be handed
QueueRecords ==
    {[DefaultRecord(0) EXCEPT !.full_name = n, !.status = s, !.arxiv_id = a] :
        n \in Names, s \in RepoState, a \in {Null, "", ArxivId}}
QueueStatuses == {"pending", "completed", "skipped"}
QueueNotes == {"", "note"}

\* RUQueueManager() without a queue file
InitQueue ==
    /\ today = 0
    /\ pc = "queue"
    /\ FreshMemory
    /\ historyFile = NoFile
    /\ queueFile = NoQueueFile
    /\ issueFile = <<>>
    /\ rec = DefaultRecord(0)
    /\ call = NoCall

\* ru_queue.add_candidate(repo_info, source)
QAdd ==
    /\ \E r \in QueueRecords, source \in {"auto", "manual"} :
          LET a == add_candidate(candidates, r, source, today)
          IN /\ candidates' = a.candidates
             /\ call' = [op |-> "add_candidate", repo |-> r, source |-> source,
                         ret |-> a.added]
    /\ UNCHANGED <<today, pc, repos, runVars, fileVars, rec>>

\* ru_queue.update_status(full_name, status, notes)
QUpdate ==
    /\ \E n \in Names, status \in QueueStatuses, notes \in QueueNotes :
          /\ candidates' = queue_update_status(candidates, n, status, notes)
          /\ call' = [op |-> "ru_queue.update_status", full_name |-> n,
                      status |-> status, notes |-> notes,
                      was |-> IF n \in DOMAIN candidates THEN candidates[n].status ELSE ""]
    /\ UNCHANGED <<today, pc, repos, runVars, fileVars, rec>>

\* ru_queue.remove_candidate(full_name)
QRemove ==
    /\ \E n \in Names : candidates' = remove_candidate(candidates, n).candidates
    /\ call' = NoCall
    /\ UNCHANGED <<today, pc, repos, runVars, fileVars, rec>>

\* A day passes.
QTick ==
    /\ today < MaxDay
    /\ today' = today + 1
    /\ call' = NoCall
    /\ UNCHANGED <<pc, repos, candidates, runVars, fileVars, rec>>

NextQueue ==
    \/ QAdd
    \/ QUpdate
    \/ QRemove
    \/ QTick

SpecQueue == InitQueue /\ [][NextQueue]_vars

(***************************************************************************)
(* SpecLoad: the two loaders on files of any content.  A file is either    *)
(* absent, or text that does not parse, or a parsed document: a list, or   *)
(* an object whose "repos" / "candidates" list holds items in file order.  *)
(***************************************************************************)
\* an item of a list that is a string, not a dict
NotADict == [type |-> "str"]
IsDict(d) == "full_name" \in DOMAIN d

\* a status string that RepoState has no member for
UnknownValue == "released"

\* RepoState(value): raises ValueError unless value is a member's value
StateValues == {StateValue(s) : s \in RepoState}

\* RepoInfo.from_dict raises: data.get on a string is an AttributeError,
\* RepoState(...) of a truthy unknown string is a ValueError.
from_dict_raises(d) ==
    IF ~IsDict(d) THEN "AttributeError"
    ELSE IF Truthy(d.status) /\ d.status \notin StateValues THEN "ValueError"
    ELSE IF Truthy(d.previous_status) /\ d.previous_status \notin StateValues
         THEN "ValueError"
    ELSE "none"

\* "for repo_data in data.get('repos', []): self.repos[...] = from_dict(...)":
\* the records read before the item that raises stay in self.repos.
RECURSIVE read_repos(_, _, _)
read_repos(store, items, now) ==
    IF items = <<>> THEN [repos |-> store, raised |-> "none"]
    ELSE IF from_dict_raises(Head(items)) # "none"
         THEN [repos |-> store, raised |-> from_dict_raises(Head(items))]
    ELSE LET r == from_dict(Head(items), now)
         IN read_repos(Put(store, r.full_name, r), Tail(items), now)

\* PaperTracker.load_history on any file.  "except (json.JSONDecodeError,
\* KeyError)" handles the text that does not parse; any other exception
\* leaves the method, and __main__ has no handler around the call.
load_history_raw(store, cands, file, now) ==
    IF ~file.exists
    THEN [repos |-> store, candidates |-> cands, loaded |-> FALSE, raised |-> "none"]
    ELSE IF file.json = "invalid"
    THEN [repos |-> store, candidates |-> cands, loaded |-> FALSE, raised |-> "none"]
    ELSE IF file.json = "list"
    THEN [repos |-> store, candidates |-> cands, loaded |-> FALSE,
          raised |-> "AttributeError"]
    ELSE LET read == read_repos(store, file.repos, now)
             s == sweep(read.repos, cands, DOMAIN read.repos, now)
         IN IF read.raised # "none"
            THEN [repos |-> read.repos, candidates |-> cands, loaded |-> FALSE,
                  raised |-> read.raised]
            ELSE [repos |-> s.repos, candidates |-> s.candidates, loaded |-> TRUE,
                  raised |-> "none"]

\* "for item in data['candidates']: self.candidates[...] = from_dict(item)"
RECURSIVE read_candidates(_, _)
read_candidates(cands, items) ==
    IF items = <<>> THEN [candidates |-> cands, warned |-> FALSE]
    ELSE IF ~IsDict(Head(items)) THEN [candidates |-> cands, warned |-> TRUE]
    ELSE LET c == RUCandidate_from_dict(Head(items))
         IN read_candidates(Put(cands, c.full_name, c), Tail(items))

\* RUQueueManager._load on any file: "except Exception" prints and goes on
\* with the candidates read so far.
RUQueueManager_load(file) ==
    IF ~file.exists THEN [candidates |-> EmptyMap, warned |-> FALSE]
    ELSE IF file.yaml \in {"invalid", "list"} THEN [candidates |-> EmptyMap, warned |-> TRUE]
    ELSE read_candidates(EmptyMap, file.candidates)

\* the items a history file's list is drawn from
HistoryItems ==
    {to_dict([DefaultRecord(0) EXCEPT !.status = HAS_WEIGHTS, !.arxiv_id = ArxivId]),
     to_dict([DefaultRecord(0) EXCEPT !.full_name = CD]),
     [to_dict(DefaultRecord(0)) EXCEPT !.full_name = CD, !.status = UnknownValue],
     NotADict}

HistoryFiles ==
    {[exists |-> FALSE], [exists |-> TRUE, json |-> "invalid"],
     [exists |-> TRUE, json |-> "list"]}
    \cup {[exists |-> TRUE, json |-> "object", repos |-> items] :
             items \in SeqsUpTo(HistoryItems, MaxItems)}

\* the items a queue file's list is drawn from
QueueItems ==
    {RUCandidate_to_dict(NewCandidate(DefaultRecord(0), "manual", 0)),
     RUCandidate_to_dict(
         NewCandidate([DefaultRecord(0) EXCEPT !.full_name = CD], "auto", 0)),
     NotADict}

QueueFiles ==
    {[exists |-> FALSE], [exists |-> TRUE, yaml |-> "invalid"],
     [exists |-> TRUE, yaml |-> "list"]}
    \cup {[exists |-> TRUE, yaml |-> "object", candidates |-> items] :
             items \in SeqsUpTo(QueueItems, MaxItems)}

\* the files as some earlier process or an editor left them
InitLoad ==
    /\ today = 0
    /\ pc = "load_idle"
    /\ FreshMemory
    /\ historyFile \in HistoryFiles
    /\ queueFile \in QueueFiles
    /\ issueFile = <<>>
    /\ rec = DefaultRecord(0)
    /\ call = NoCall

\* PaperTracker(...): RUQueueManager.__init__ runs _load
LoadQueue ==
    /\ pc = "load_idle"
    /\ LET q == RUQueueManager_load(queueFile)
       IN /\ candidates' = q.candidates
          /\ call' = [op |-> "_load", warned |-> q.warned]
    /\ pc' = "load_constructed"
    /\ UNCHANGED <<today, repos, fresh_releases, new_repos, watchlist_updates,
                   fileVars, urls, processed, seen_this_run, all_results, query,
                   calls, returned, doc, rec>>

\* tracker.load_history(args.history); an exception ends the process
LoadHistoryRaw ==
    /\ pc = "load_constructed"
    /\ LET r == load_history_raw(repos, candidates, historyFile, today)
       IN /\ repos' = r.repos
          /\ candidates' = r.candidates
          /\ call' = [op |-> "load_history", loaded |-> r.loaded, raised |-> r.raised]
          /\ pc' = IF r.raised = "none" THEN "load_done" ELSE "load_raised"
    /\ UNCHANGED <<today, fresh_releases, new_repos, watchlist_updates,
                   fileVars, urls, processed, seen_this_run, all_results, query,
                   calls, returned, doc, rec>>

NextLoad ==
    \/ LoadQueue
    \/ LoadHistoryRaw

SpecLoad == InitLoad /\ [][NextLoad]_vars

(***************************************************************************)
(* SpecSrc: the run with the discovery call as src/ has it.  search()      *)
(* passes created_after= and max_results= to GitHubClient.search_repos,    *)
(* whose parameters are query, min_stars, per_page, page and sort; Python  *)
(* raises TypeError at the call, search() has no handler and neither has   *)
(* main, so the process ends before anything is saved.                     *)
(***************************************************************************)
\* the keyword arguments of the two calls in search()
SearchCallKeywords == {"query", "min_stars", "created_after", "max_results", "sort"}

\* the parameters of GitHubClient.search_repos
SearchReposParameters == {"query", "min_stars", "per_page", "page", "sort"}

\* Python binds a call's keywords to parameters of those names
call_binds(keywords, parameters) == keywords \subseteq parameters

\* search: pass 1 of the first query, self.github.search_repos(...)
PassStarsRaises ==
    /\ pc = "pass_stars"
    /\ ~call_binds(SearchCallKeywords, SearchReposParameters)
    /\ pc' = "raised"
    /\ UNCHANGED <<today, repos, candidates, runVars, fileVars, rec, call>>

\* the TypeError leaves search() and main: traceback, nothing is saved
Traceback ==
    /\ pc = "raised"
    /\ ProcessExit
    /\ UNCHANGED <<today, fileVars, rec, call>>

NextSrc ==
    \/ Tick
    \/ SubmitIssue
    \/ Construct
    \/ LoadHistory
    \/ IntakeBegin
    \/ IntakeUrl
    \/ IntakeEnd
    \/ SearchBegin
    \/ PassStarsRaises
    \/ Traceback

SpecSrc == Init /\ [][NextSrc]_vars

(***************************************************************************)
(* SpecNoQueries: the run with a configuration that has no queries.        *)
(* config.queries is then the empty list, "queries or config.queries" is   *)
(* empty and the loop of search() has no iteration.                        *)
(***************************************************************************)
\* config.queries when the configuration names none
NoQueries == <<>>

\* search with no query: the run lists are reset, the loop body never runs
SearchNoQueries ==
    /\ pc = "search"
    /\ Len(NoQueries) = 0
    /\ fresh_releases' = <<>>
    /\ new_repos' = <<>>
    /\ watchlist_updates' = <<>>
    /\ seen_this_run' = {}
    /\ all_results' = <<>>
    /\ calls' = NoCalls
    /\ returned' = {}
    /\ doc' = NoDoc
    /\ query' = 0
    /\ pc' = "search_done"
    /\ UNCHANGED <<today, repos, candidates, urls, processed, fileVars, rec, call>>

NextNoQueries ==
    \/ Tick
    \/ SubmitIssue
    \/ Construct
    \/ LoadHistory
    \/ IntakeBegin
    \/ IntakeUrl
    \/ IntakeEnd
    \/ SearchNoQueries
    \/ SaveHistory
    \/ Exit

SpecNoQueries == Init /\ [][NextNoQueries]_vars

(***************************************************************************)
(* SpecIntake: runs of the tracker that find a batch of submissions in the *)
(* intake file on the first day; nobody submits afterwards.                *)
(***************************************************************************)
MaxBatch == 2

\* the intake files users can have filled before the first run
Batches == SeqsUpTo(Urls, MaxBatch)

InitIntake ==
    /\ today = 0
    /\ pc = "idle"
    /\ FreshMemory
    /\ historyFile = NoFile
    /\ queueFile = NoQueueFile
    /\ issueFile \in Batches
    /\ rec = DefaultRecord(0)
    /\ call = NoCall

NextIntake ==
    \/ Construct
    \/ LoadHistory
    \/ IntakeBegin
    \/ IntakeUrl
    \/ IntakeEnd
    \/ SearchBegin
    \/ PassStars
    \/ PassUpdated
    \/ ProcessResult
    \/ NextQuery
    \/ SaveHistory
    \/ Exit

SpecIntake == InitIntake /\ [][NextIntake]_vars

(***************************************************************************)
(* SpecRelevance: the relevance filter on its own.  A caller hands it the  *)
(* metadata of a repository; `call` holds the metadata and the answer.     *)
(***************************************************************************)
MaxWords == 2

\* the sets of at most n elements of S
RECURSIVE UpTo(_, _)
UpTo(S, n) ==
    IF n = 0 THEN {{}}
    ELSE LET fewer == UpTo(S, n - 1)
         IN fewer \cup {t \cup {x} : t \in fewer, x \in S}

\* what GitHub can carry as name, description (None reads as "") and topics
NameWords == {"super-resolution", "Super-Resolution", "denoising", "audio", "net", "Awesome"}
TopicWords == {"image", "Image", "denoising", "audio"}
Descriptions == {<<>>, Description, <<"a", "list">>, <<"AUDIO", "denoising">>}
RepoMetas ==
    [name : UpTo(NameWords, MaxWords), description : Descriptions,
     topics : UpTo(TopicWords, MaxWords)]

InitRelevance ==
    /\ today = 0
    /\ pc = "filter"
    /\ FreshMemory
    /\ historyFile = NoFile
    /\ queueFile = NoQueueFile
    /\ issueFile = <<>>
    /\ rec = DefaultRecord(0)
    /\ call = [op |-> "none", repo |-> MetaRelevant, ret |-> FALSE]

\* relevance_filter.is_relevant(repo)
CallIsRelevant ==
    /\ pc = "filter"
    /\ \E repo \in RepoMetas :
          call' = [op |-> "is_relevant", repo |-> repo, ret |-> is_relevant(repo)]
    /\ UNCHANGED <<today, pc, repos, candidates, runVars, fileVars, rec>>

\* relevance_filter.is_excluded(repo)
CallIsExcluded ==
    /\ pc = "filter"
    /\ \E repo \in RepoMetas :
          call' = [op |-> "is_excluded", repo |-> repo, ret |-> is_excluded(repo)]
    /\ UNCHANGED <<today, pc, repos, candidates, runVars, fileVars, rec>>

NextRelevance ==
    \/ CallIsRelevant
    \/ CallIsExcluded

SpecRelevance == InitRelevance /\ [][NextRelevance]_vars

(***************************************************************************)
(* SpecRequest: GitHubClient._request on its own (github_client.py).  The  *)
(* server answers each attempt with one of the Responses; `call` holds the *)
(* loop index, the answers so far, the seconds of backoff slept and what   *)
(* the call gave back.                                                     *)
(***************************************************************************)
\* the default of the parameter max_retries
max_retries == 3

\* What urlopen and response.read() can do on one attempt:
\*   "200"                    a body that json.loads accepts
\*   "200_garbled"            a body that json.loads or decode() rejects
\*   "403_reset"              HTTPError 403, X-RateLimit-Reset 0..3600 s ahead
\*   "403_retry_after"        HTTPError 403, no such reset, a Retry-After header
\*   "403_bare"               HTTPError 403, reset absent, past or an hour away,
\*                            and no Retry-After
\*   "404"                    HTTPError 404
\*   "5xx"                    HTTPError with code >= 500
\*   "4xx"                    any other HTTPError
\*   "URLError"               urllib.error.URLError
\*   "Timeout"                TimeoutError or another OSError
\*   "IncompleteRead_partial" IncompleteRead whose partial data parses
\*   "IncompleteRead"         IncompleteRead without usable partial data
Responses ==
    {"200", "200_garbled", "403_reset", "403_retry_after", "403_bare", "404",
     "5xx", "4xx", "URLError", "Timeout", "IncompleteRead_partial",
     "IncompleteRead"}

\* the rate-limit answers GitHub gives (primary and secondary)
RateLimited == {"403_reset", "403_retry_after", "403_bare"}

\* "wait_time = 2 ** attempt"
backoff(attempt) == 2 ^ attempt

\* A mutant of the loop body: a 404 is retried like a server error.
request_attempt_retries_404(response, attempt) ==
    CASE response = "200" -> [kind |-> "return", value |-> "content", sleep |-> 0]
      [] response = "200_garbled" -> [kind |-> "raise", value |-> "raised", sleep |-> 0]
      [] response = "403_reset" -> [kind |-> "continue", value |-> "pending", sleep |-> 0]
      [] response = "403_retry_after" -> [kind |-> "continue", value |-> "pending", sleep |-> 0]
      [] response = "403_bare" -> [kind |-> "return", value |-> "None", sleep |-> 0]
      [] response = "404" ->
            [kind |-> "continue", value |-> "pending", sleep |-> backoff(attempt)]
      [] response = "5xx" ->
            [kind |-> "continue", value |-> "pending", sleep |-> backoff(attempt)]
      [] response = "4xx" -> [kind |-> "return", value |-> "None", sleep |-> 0]
      [] response \in {"URLError", "Timeout"} ->
            [kind |-> "continue", value |-> "pending", sleep |-> backoff(attempt)]
      [] response = "IncompleteRead_partial" ->
            [kind |-> "return", value |-> "partial", sleep |-> 0]
      [] response = "IncompleteRead" ->
            [kind |-> "continue", value |-> "pending", sleep |-> backoff(attempt)]

\* The body of "for attempt in range(max_retries)": what one attempt that
\* got `response` does - return a value, raise, or sleep and continue.
\* `sleep` is the backoff slept; the rate-limit pauses are not counted in it.
request_attempt(response, attempt) ==
    CASE response = "200" -> [kind |-> "return", value |-> "content", sleep |-> 0]
      [] response = "200_garbled" -> [kind |-> "raise", value |-> "raised", sleep |-> 0]
      [] response = "403_reset" -> [kind |-> "continue", value |-> "pending", sleep |-> 0]
      [] response = "403_retry_after" -> [kind |-> "continue", value |-> "pending", sleep |-> 0]
      [] response = "403_bare" -> [kind |-> "return", value |-> "None", sleep |-> 0]
      [] response = "404" -> [kind |-> "return", value |-> "None", sleep |-> 0]
      [] response = "5xx" ->
            [kind |-> "continue", value |-> "pending", sleep |-> backoff(attempt)]
      [] response = "4xx" -> [kind |-> "return", value |-> "None", sleep |-> 0]
      [] response \in {"URLError", "Timeout"} ->
            [kind |-> "continue", value |-> "pending", sleep |-> backoff(attempt)]
      [] response = "IncompleteRead_partial" ->
            [kind |-> "return", value |-> "partial", sleep |-> 0]
      [] response = "IncompleteRead" ->
            [kind |-> "continue", value |-> "pending", sleep |-> backoff(attempt)]

\* the call as it stands before its first attempt
NewRequest ==
    [op |-> "_request", attempt |-> 0, responses |-> <<>>, slept |-> 0,
     ret |-> "pending"]

InitRequest ==
    /\ today = 0
    /\ pc = "client"
    /\ FreshMemory
    /\ historyFile = NoFile
    /\ queueFile = NoQueueFile
    /\ issueFile = <<>>
    /\ rec = DefaultRecord(0)
    /\ call = NewRequest

\* self._request(url): _wait_for_rate_limit sleeps a finite time, the
\* request object is built, the loop is entered
RequestCall ==
    /\ pc \in {"client", "returned"}
    /\ pc' = "request"
    /\ call' = NewRequest
    /\ UNCHANGED <<today, repos, candidates, runVars, fileVars, rec>>

\* one iteration of the loop
RequestAttempt ==
    /\ pc = "request"
    /\ call.attempt < max_retries
    /\ \E response \in Responses :
          LET step == request_attempt(response, call.attempt)
          IN /\ call' = [call EXCEPT !.attempt = @ + 1,
                                     !.responses = Append(@, response),
                                     !.slept = @ + step.sleep,
                                     !.ret = step.value]
             /\ pc' = IF step.kind = "continue" THEN "request" ELSE "returned"
    /\ UNCHANGED <<today, repos, candidates, runVars, fileVars, rec>>

\* the loop has run max_retries times: "return None"
RequestExhausted ==
    /\ pc = "request"
    /\ call.attempt >= max_retries
    /\ call' = [call EXCEPT !.ret = "None"]
    /\ pc' = "returned"
    /\ UNCHANGED <<today, repos, candidates, runVars, fileVars, rec>>

NextRequest ==
    \/ RequestCall
    \/ RequestAttempt
    \/ RequestExhausted

SpecRequest == InitRequest /\ [][NextRequest]_vars

\* urlopen has a timeout of 60 s and every sleep is finite, so an iteration
\* that can run does run
FairRequest ==
    SpecRequest /\ WF_vars(RequestAttempt) /\ WF_vars(RequestExhausted)

(***************************************************************************)
(* SpecCache: IndexedCache on its own (cache_manager.py).  `call.cache` is *)
(* the cache object after the last call: its entries and its six indexes.  *)
(* An entry handed to add_entries is a dict the caller built, or a dict    *)
(* the cache handed out before (get_entry, search and                      *)
(* get_entries_by_source return the stored dicts themselves); the second   *)
(* kind is the very object that self.entries holds.                        *)
(***************************************************************************)
MaxEntries == 2

Sources == {"o/awesome-x", "p/y"}
Years == {"2023", "2024"}
Conferences == {"CVPR"}
Domains == {"sr", "dn"}
Tokens == {"image", "net", "m1"}
EntryIds == {"e1", "x:m1", "y:m1"}

\* conference.upper()
upper(c) == IF c = "cvpr" THEN "CVPR" ELSE c

\* source.split('/')[-1].lower().replace('awesome-', '').replace('-', '_')
source_short(source) == IF source = "o/awesome-x" THEN "x" ELSE "y"

\* f"{source_short}:{model_name}"
generated_id(source, model_name) ==
    IF source_short(source) = "x" THEN "x:m1" ELSE "y:m1"

\* IndexedCache._tokenize: the words of two or more characters of the
\* lower-cased text
tokenize(entry) ==
    {lower(w) : w \in {entry.title[i] : i \in DOMAIN entry.title} \cup {entry.model_name}}
    \ {"a"}

\* entries as a parser builds them
ParsedEntries ==
    {[id |-> "e1", model_name |-> "m1", year |-> "2024", conference |-> "cvpr",
      has_repo |-> TRUE, github_url |-> Null, title |-> <<"Image", "net">>,
      source_list |-> "", domain |-> "sr"],
     [id |-> "e1", model_name |-> "m1", year |-> "2023", conference |-> Null,
      has_repo |-> FALSE, github_url |-> Null, title |-> <<"a", "net">>,
      source_list |-> "", domain |-> ""],
     [id |-> "", model_name |-> "m1", year |-> Null, conference |-> "CVPR",
      has_repo |-> FALSE, github_url |-> "url", title |-> <<>>,
      source_list |-> "", domain |-> ""]}

\* IndexedCache() with no cache file
EmptyCache ==
    [entries |-> EmptyMap,
     idx_by_year |-> [y \in Years |-> {}],
     idx_by_conference |-> [c \in Conferences |-> {}],
     idx_by_source |-> [x \in Sources |-> {}],
     idx_by_domain |-> [d \in Domains |-> {}],
     idx_has_code |-> {},
     idx_tokens |-> [t \in Tokens |-> {}],
     last_updated |-> Null]

\* IndexedCache._index_entry
index_entry(cache, entry_id, entry) ==
    [cache EXCEPT
       !.idx_by_year = [y \in Years |->
            IF Truthy(entry.year) /\ entry.year = y THEN @[y] \cup {entry_id} ELSE @[y]],
       !.idx_by_conference = [c \in Conferences |->
            IF Truthy(entry.conference) /\ upper(entry.conference) = c
            THEN @[c] \cup {entry_id} ELSE @[c]],
       !.idx_by_source = [x \in Sources |->
            IF entry.source_list = x THEN @[x] \cup {entry_id} ELSE @[x]],
       !.idx_by_domain = [d \in Domains |->
            IF entry.domain = d THEN @[d] \cup {entry_id} ELSE @[d]],
       !.idx_has_code =
            IF entry.has_repo \/ Truthy(entry.github_url) THEN @ \cup {entry_id} ELSE @,
       !.idx_tokens = [t \in Tokens |->
            IF t \in tokenize(entry) THEN @[t] \cup {entry_id} ELSE @[t]]]

\* IndexedCache._unindex_entry
unindex_entry(cache, entry_id, entry) ==
    [cache EXCEPT
       !.idx_by_year = [y \in Years |->
            IF Truthy(entry.year) /\ entry.year = y THEN @[y] \ {entry_id} ELSE @[y]],
       !.idx_by_conference = [c \in Conferences |->
            IF Truthy(entry.conference) /\ upper(entry.conference) = c
            THEN @[c] \ {entry_id} ELSE @[c]],
       !.idx_by_source = [x \in Sources |->
            IF entry.source_list = x THEN @[x] \ {entry_id} ELSE @[x]],
       !.idx_by_domain = [d \in Domains |->
            IF entry.domain = d THEN @[d] \ {entry_id} ELSE @[d]],
       !.idx_has_code = @ \ {entry_id},
       !.idx_tokens = [t \in Tokens |->
            IF t \in tokenize(entry) THEN @[t] \ {entry_id} ELSE @[t]]]

\* The body of the loop of add_entries for one element of the list.  `item`
\* is [stored, id, entry]: a dict of the caller's (entry), or the dict the
\* cache holds under id.  The assignments to entry["id"],
\* entry["source_list"] and entry["domain"] come first; on a stored dict
\* they change what self.entries holds before _unindex_entry reads it.
add_entry(cache, item, source, domain) ==
    LET given == IF item.stored THEN cache.entries[item.id] ELSE item.entry
        entry_id == IF given.id # "" THEN given.id
                    ELSE generated_id(source, given.model_name)
        entry == [given EXCEPT !.id = entry_id,
                               !.source_list = source,
                               !.domain = IF domain # "" THEN domain ELSE @]
        c0 == IF item.stored
              THEN [cache EXCEPT !.entries = Put(@, item.id, entry)]
              ELSE cache
        c1 == IF entry_id \in DOMAIN c0.entries
              THEN unindex_entry(c0, entry_id, c0.entries[entry_id])
              ELSE c0
        c2 == [c1 EXCEPT !.entries = Put(@, entry_id, entry)]
    IN index_entry(c2, entry_id, entry)

\* IndexedCache.add_entries
RECURSIVE add_entries(_, _, _, _)
add_entries(cache, items, source, domain) ==
    IF items = <<>> THEN [cache EXCEPT !.last_updated = "now"]
    ELSE add_entries(add_entry(cache, Head(items), source, domain), Tail(items),
                     source, domain)

\* the loop of remove_source over the ids it listed
RECURSIVE remove_ids(_, _)
remove_ids(cache, ids) ==
    IF ids = {} THEN cache
    ELSE LET entry_id == CHOOSE x \in ids : TRUE
             c1 == IF entry_id \in DOMAIN cache.entries
                   THEN [unindex_entry(cache, entry_id, cache.entries[entry_id])
                            EXCEPT !.entries = Del(@, entry_id)]
                   ELSE cache
         IN remove_ids(c1, ids \ {entry_id})

\* IndexedCache.remove_source
remove_source(cache, source) == remove_ids(cache, cache.idx_by_source[source])

\* IndexedCache.clear
clear(cache) == EmptyCache

\* what a caller can put in the list: a parsed entry, or a stored dict
Items ==
    {[stored |-> FALSE, id |-> "", entry |-> e] : e \in ParsedEntries}
    \cup {[stored |-> TRUE, id |-> i, entry |-> CHOOSE e \in ParsedEntries : TRUE] :
            i \in EntryIds}
ItemLists == SeqsUpTo(Items, MaxEntries)

InitCache ==
    /\ today = 0
    /\ pc = "cache"
    /\ FreshMemory
    /\ historyFile = NoFile
    /\ queueFile = NoQueueFile
    /\ issueFile = <<>>
    /\ rec = DefaultRecord(0)
    /\ call = [op |-> "IndexedCache", cache |-> EmptyCache]

\* cache.add_entries(entries, source, domain): a stored dict can be passed
\* only for an id the cache holds
CacheAddEntries ==
    /\ pc = "cache"
    /\ \E items \in ItemLists, source \in Sources, domain \in {"", "dn"} :
          /\ \A k \in DOMAIN items :
                items[k].stored => items[k].id \in DOMAIN call.cache.entries
          /\ call' = [op |-> "add_entries",
                      cache |-> add_entries(call.cache, items, source, domain)]
    /\ UNCHANGED <<today, pc, repos, candidates, runVars, fileVars, rec>>

\* cache.remove_source(source)
CacheRemoveSource ==
    /\ pc = "cache"
    /\ \E source \in Sources :
          call' = [op |-> "remove_source", cache |-> remove_source(call.cache, source)]
    /\ UNCHANGED <<today, pc, repos, candidates, runVars, fileVars, rec>>

\* cache.clear()
CacheClear ==
    /\ pc = "cache"
    /\ call' = [op |-> "clear", cache |-> clear(call.cache)]
    /\ UNCHANGED <<today, pc, repos, candidates, runVars, fileVars, rec>>

NextCache ==
    \/ CacheAddEntries
    \/ CacheRemoveSource
    \/ CacheClear

SpecCache == InitCache /\ [][NextCache]_vars

(***************************************************************************)
(* C1..C10.                                                                *)
(***************************************************************************)
\* the identities tracked before and after a step
Kept == (DOMAIN repos) \cap (DOMAIN repos')

\* C1 (as stated): in every step of the tracker, whatever the operation
\* (reconciliation, history load, queue promotion, out-of-band intake), the
\* status_changed_date of a tracked identity changes only if its status
\* changes in that step.
C1_DateChangesOnlyWithStatus ==
    [][\A n \in Kept :
          repos'[n].status_changed_date # repos[n].status_changed_date
              => repos'[n].status # repos[n].status]_vars

\* C2: a call of update_status that changes the status sets previous_status
\* to the status held before the call; a call with the current status leaves
\* previous_status as it is; a previous_status that is not null is never
\* reset to null.
C2_PreviousStatusIsHistory ==
    [][(call'.op = "update_status" /\ call'.repo = rec /\ today' = today) =>
          /\ call'.source # rec.status =>
                rec'.status = call'.source /\ rec'.previous_status = rec.status
          /\ call'.source = rec.status =>
                rec'.status = rec.status /\ rec'.previous_status = rec.previous_status
          /\ rec.previous_status # Null => rec'.previous_status # Null]_vars

\* C2 witness: a call with the current status after an observed change.
C2_Witness ==
    /\ pc = "record"
    /\ call.op = "update_status"
    /\ call.source = HAS_WEIGHTS
    /\ call.repo.status = HAS_WEIGHTS
    /\ rec.status = HAS_WEIGHTS
    /\ rec.previous_status = COMING_SOON

\* the state the detection results of a record call for
StateFor(r) ==
    IF r.weight_status # "None" THEN HAS_WEIGHTS
    ELSE IF r.coming_soon_detected THEN COMING_SOON
    ELSE NO_WEIGHTS

\* the identity a step of the search loop hands to the delta logic
Processing(n) ==
    /\ pc = "process"
    /\ all_results # <<>>
    /\ Head(all_results) = n
    /\ n \notin seen_this_run
    /\ n \in seen_this_run'

Created(n) == n \notin DOMAIN candidates /\ n \in DOMAIN candidates'

C7_QueueEligibility ==
    [][call'.op = "add_candidate" =>
          LET r == call'.repo
              n == r.full_name
          IN IF Created(n)
             THEN /\ r.status = HAS_WEIGHTS
                  /\ call'.source = "auto" => r.arxiv_id \notin {Null, ""}
                  /\ candidates'[n].status = "pending"
                  /\ candidates'[n].source = call'.source
                  /\ call'.ret = TRUE
             ELSE /\ call'.ret = FALSE
                  /\ candidates' = candidates]_vars

\* C7 witness: a manual promotion of a HAS_WEIGHTS record without an arXiv id
\* has created a pending entry.
C7_Witness ==
    /\ pc = "queue"
    /\ call.op = "add_candidate"
    /\ call.source = "manual"
    /\ call.ret = TRUE
    /\ call.repo.arxiv_id = ""
    /\ call.repo.full_name \in DOMAIN candidates
    /\ candidates[call.repo.full_name].source = "manual"
    /\ candidates[call.repo.full_name].status = "pending"

C9_Freshness ==
    pc = "record" =>
       LET age == today - rec.status_changed_date
           released == rec.status = HAS_WEIGHTS /\ rec.previous_status # Null
       IN /\ \A W \in 0..MaxWindow :
                is_fresh_release(rec, W, today) <=> (released /\ age <= W)
          /\ (released /\ age = 7) =>
                is_fresh_release(rec, 7, today) /\ ~is_fresh_release(rec, 6, today)
          /\ (released /\ age = 10) => ~is_fresh_release(rec, 7, today)
          /\ rec.previous_status = Null =>
                \A W \in 0..MaxWindow : ~is_fresh_release(rec, W, today)

\* C9 witness: a record that became HAS_WEIGHTS exactly 7 days ago.
C9_Witness ==
    /\ pc = "record"
    /\ rec.status = HAS_WEIGHTS
    /\ rec.previous_status # Null
    /\ today - rec.status_changed_date = 7

\* C10 (as stated): a record that a step of reconciliation or of intake
\* creates with status HAS_WEIGHTS is not a fresh release for any window and
\* adds nothing to the summary's fresh_releases.
C10_NeverFreshSinceCreation ==
    [][\A n \in (DOMAIN repos') \ (DOMAIN repos) :
          (pc \in {"process", "intake"} /\ repos'[n].status = HAS_WEIGHTS)
          => /\ \A W \in 0..MaxWindow : ~is_fresh_release(repos'[n], W, today')
             /\ get_summary(repos', candidates', new_repos', today').fresh_releases
                   = get_summary(repos, candidates, new_repos, today).fresh_releases]_vars

(***************************************************************************)
(* C11..C20.                                                               *)
(***************************************************************************)
\* C11 (as stated): a discovered repository that has a record is handed to
\* its delta case whatever the relevance filter answers for its metadata, so
\* the step that handles it leaves its last_checked at the current date.
C11_TrackedRecordsSkipGating ==
    [][\A n \in Kept : Processing(n) => repos'[n].last_checked = today]_vars

\* the documentation of the repository the step handles holds weights
DocHasWeights(d) == d.readme \cap {"hf", "release", "cloud", "ext"} # {}

\* C12 (as stated): a record that is NO_WEIGHTS and is discovered again
\* while its documentation holds weights is HAS_WEIGHTS after the step, with
\* previous_status NO_WEIGHTS and status_changed_date today; if the
\* documentation also holds an arXiv identifier and the queue had no entry
\* for the identity, a pending entry exists.
C12_PromotionOnRediscovery ==
    [][\A n \in Kept :
          (Processing(n) /\ repos[n].status = NO_WEIGHTS /\ DocHasWeights(doc'))
          => /\ repos'[n].status = HAS_WEIGHTS
             /\ repos'[n].previous_status = NO_WEIGHTS
             /\ repos'[n].status_changed_date = today
             /\ ("arxiv" \in doc'.readme /\ n \notin DOMAIN candidates)
                   => (n \in DOMAIN candidates' /\ candidates'[n].status = "pending")]_vars

Qualifies(r) == r.status = HAS_WEIGHTS /\ r.arxiv_id \notin {Null, ""}

\* C14: after load_history every loaded record that is HAS_WEIGHTS with a
\* non-empty arxiv_id has a queue entry; the load keeps the entries there
\* were and creates entries, pending and of provenance "auto", only for
\* such records.
C14_LoadSweepsQualifyingRecords ==
    [][(pc = "constructed" /\ pc' = "loaded") =>
          /\ \A n \in DOMAIN repos' : Qualifies(repos'[n]) => n \in DOMAIN candidates'
          /\ \A n \in DOMAIN candidates' :
                IF n \in DOMAIN candidates
                THEN candidates'[n] = candidates[n]
                ELSE /\ n \in DOMAIN repos'
                     /\ Qualifies(repos'[n])
                     /\ candidates'[n].status = "pending"
                     /\ candidates'[n].source = "auto"]_vars

\* C14 witness: history has been loaded and the sweep made the entry of a
\* qualifying record that the queue file does not hold.
C14_Witness ==
    /\ pc = "loaded"
    /\ \E n \in (DOMAIN repos) \cap (DOMAIN candidates) :
          /\ Qualifies(repos[n])
          /\ candidates[n].status = "pending"
          /\ candidates[n].source = "auto"
          /\ \A d \in queueFile.candidates : d.full_name # n

MalformedHistory(file) ==
    /\ file.exists
    /\ \/ file.json # "object"
       \/ \E i \in 1..Len(file.repos) : from_dict_raises(file.repos[i]) # "none"

\* a queue file that is present and is not a well-formed queue
MalformedQueue(file) ==
    /\ file.exists
    /\ \/ file.yaml # "object"
       \/ \E i \in 1..Len(file.candidates) : ~IsDict(file.candidates[i])

\* C16 (as stated): no load raises; after load_history of a malformed
\* snapshot the store is empty, after _load of a malformed queue file the
\* queue is empty: nothing is loaded in part.
C16_LoadNeverCrashes ==
    /\ pc # "load_raised"
    /\ (pc = "load_done" /\ MalformedHistory(historyFile)) => repos = EmptyMap
    /\ (pc = "load_constructed" /\ MalformedQueue(queueFile)) => candidates = EmptyMap

\* the step handles doc'.full_name by Case B, C or D or by the intake
Detects ==
    \/ /\ pc = "intake"
       /\ processed' = processed + 1
       /\ doc'.op = "issue"
    \/ /\ doc'.op = "delta"
       /\ Processing(doc'.full_name)
       /\ doc'.accepted
       /\ doc'.full_name \in DOMAIN repos => repos[doc'.full_name].status # HAS_WEIGHTS

C18_FailedPassDoesNotAbort ==
    [][(pc = "pass_stars" /\ pc' # pc) => pc' = "pass_updated"]_vars

\* the step takes a submitted URL whose identity is not tracked and whose
\* metadata GitHub serves
Intakes ==
    /\ pc = "intake"
    /\ urls # <<>>
    /\ urls' = Tail(urls)
    /\ doc'.op = "issue"

\* C19: the intake stores, for such a URL, the record that Case D's
\* detection path makes of the served metadata and documentation, whatever
\* the relevance filter answers for it, with the queue that path leaves, and
\* appends the identity to the new repositories of the run.
C19_IntakeBypassesFilter ==
    [][Intakes =>
          LET n == doc'.full_name IN
          /\ n \in DOMAIN repos'
          /\ \E meta \in Metas, stars \in StarChoices :
                LET data == RepoData(n, meta, stars)
                    d == update_repo_detection(
                             candidates, from_github_repo(data, today), doc'.readme, today)
                IN /\ doc'.accepted = (~is_excluded(data) /\ is_relevant(data))
                   /\ repos'[n] = d.repo
                   /\ candidates' = d.candidates
          /\ \A m \in (DOMAIN repos) \ {n} : m \in DOMAIN repos' /\ repos'[m] = repos[m]
          /\ new_repos' = Append(new_repos, n)
          /\ processed' = processed + 1]_vars

\* C19 witness: the intake has stored a repository that the relevance filter
\* rejects.
C19_Witness ==
    /\ pc = "intake"
    /\ doc.op = "issue"
    /\ ~doc.accepted
    /\ doc.full_name \in DOMAIN repos
    /\ new_repos # <<>>
    /\ new_repos[Len(new_repos)] = doc.full_name
    /\ processed = 1

\* the step is a call of the queue's update_status on a queued identity
Updates(n) ==
    /\ call'.op = "ru_queue.update_status"
    /\ call'.full_name = n
    /\ n \in DOMAIN candidates

\* C20 (as stated): update_status always overwrites the entry's status and
\* its notes with the given values.
C20_UpdateOverwritesStatusAndNotes ==
    [][\A n \in Names : Updates(n) =>
          /\ candidates'[n].status = call'.status
          /\ candidates'[n].notes = call'.notes]_vars

\* C20 (amended): update_status on a queued identity always sets the status
\* to the given value, whatever the status was; the notes are set to the
\* given notes when these are not empty and are kept otherwise; nothing else
\* of the queue changes.
C20_UpdateOverwritesStatus ==
    [][\A n \in Names : Updates(n) =>
          /\ DOMAIN candidates' = DOMAIN candidates
          /\ candidates'[n].status = call'.status
          /\ candidates'[n].notes =
                IF call'.notes # "" THEN call'.notes ELSE candidates[n].notes
          /\ candidates'[n].full_name = candidates[n].full_name
          /\ candidates'[n].arxiv_id = candidates[n].arxiv_id
          /\ candidates'[n].added_at = candidates[n].added_at
          /\ candidates'[n].source = candidates[n].source
          /\ \A m \in (DOMAIN candidates) \ {n} : candidates'[m] = candidates[m]]_vars

\* C20 witness: a completed entry with notes was set back to pending by a
\* call without notes, and its notes are still there.
C20_Witness ==
    /\ call.op = "ru_queue.update_status"
    /\ call.was = "completed"
    /\ call.status = "pending"
    /\ call.notes = ""
    /\ call.full_name \in DOMAIN candidates
    /\ candidates[call.full_name].status = "pending"
    /\ candidates[call.full_name].notes = "note"

(***************************************************************************)
(* C21..C30.                                                               *)
(***************************************************************************)
\* C21 (as stated): in every state a record's ru_candidate flag is true
\* exactly when the queue holds an entry for the record's identity.
C21_FlagMatchesQueue ==
    \A n \in DOMAIN repos : repos[n].ru_candidate <=> n \in DOMAIN candidates

\* C22 (as stated): with no query configured the run stops before any I/O:
\* the history is not loaded, the intake is not processed, nothing is
\* requested and nothing is saved.
C22_NoQueriesNoIO ==
    /\ pc \notin {"loaded", "intake", "search", "search_done", "saved"}
    /\ historyFile = NoFile
    /\ queueFile = NoQueueFile

\* the HAS_WEIGHTS records of the snapshot on disk, by identity
StableOnDisk ==
    {d \in historyFile.repos : d.status = StateValue(HAS_WEIGHTS)}

\* C23 (as stated): HAS_WEIGHTS is absorbing.  No step changes the status,
\* the previous_status or the status_changed_date of a record that is
\* HAS_WEIGHTS, in memory or from one snapshot to the next.
C23_HasWeightsIsAbsorbing ==
    [][/\ \A n \in Kept :
             repos[n].status = HAS_WEIGHTS
             => /\ repos'[n].status = HAS_WEIGHTS
                /\ repos'[n].previous_status = repos[n].previous_status
                /\ repos'[n].status_changed_date = repos[n].status_changed_date
       /\ \A d \in StableOnDisk :
             \E e \in historyFile'.repos :
                /\ e.full_name = d.full_name
                /\ e.status = d.status
                /\ e.previous_status = d.previous_status
                /\ e.status_changed_date = d.status_changed_date]_vars

\* C24 (as stated): the intake never replaces or changes a record that is in
\* the store, whatever identity GitHub returns for a submitted URL; the
\* stored records keep their status, previous_status and dates.
C24_IntakeKeepsTrackedRecords ==
    [][(pc = "intake") =>
          \A n \in DOMAIN repos :
             /\ n \in DOMAIN repos'
             /\ repos'[n].status = repos[n].status
             /\ repos'[n].previous_status = repos[n].previous_status
             /\ repos'[n].status_changed_date = repos[n].status_changed_date
             /\ repos'[n].last_checked = repos[n].last_checked]_vars

\* the entry the automatic promotion makes of record r on day now
FreshEntry(r, now) ==
    [full_name |-> r.full_name, arxiv_id |-> r.arxiv_id, added_at |-> now,
     source |-> "auto", status |-> "pending", notes |-> ""]

\* a record of the snapshot that was a candidate when it was saved and
\* qualifies for promotion
WasCandidate(d) ==
    /\ d.ru_candidate
    /\ d.status = StateValue(HAS_WEIGHTS)
    /\ Truthy(d.arxiv_id)

Releases(n) ==
    /\ n \in Kept
    /\ Processing(n)
    /\ repos[n].status = COMING_SOON
    /\ repos'[n].status = HAS_WEIGHTS

Discovers(n) == Processing(n) /\ n \notin DOMAIN repos

Stable(n) ==
    /\ n \in Kept
    /\ Processing(n)
    /\ doc'.accepted
    /\ repos[n].status = HAS_WEIGHTS

Retried ==
    {"403_reset", "403_retry_after", "5xx", "URLError", "Timeout", "IncompleteRead"}

\* C31: every _request call ends.  It makes at most max_retries attempts,
\* rate-limit waits and retries after server errors, network errors,
\* timeouts and truncated reads all counted; when every attempt was one of
\* those the call returns None and raises nothing; a 404 ends the call at
\* once with None.
C31_RequestTerminates ==
    /\ [](/\ call.attempt = Len(call.responses)
          /\ call.attempt <= max_retries)
    /\ []((pc = "returned"
            /\ \A i \in DOMAIN call.responses : call.responses[i] \in Retried)
          => (call.attempt = max_retries /\ call.ret = "None"))
    /\ [](\A i \in DOMAIN call.responses :
             call.responses[i] = "404"
             => (i = Len(call.responses) /\ pc = "returned" /\ call.ret = "None"))
    /\ ((pc = "request") ~> (pc = "returned"))

\* C31 witness: a server error, a secondary rate limit and a timeout have
\* used up the three attempts; the call has returned None after 1 + 4
\* seconds of backoff.
C31_Witness ==
    /\ pc = "returned"
    /\ call.responses = <<"5xx", "403_retry_after", "Timeout">>
    /\ call.ret = "None"
    /\ call.slept = 5

\* the rate-limit answers that say how long to pause
Advertised == RateLimited \ {"403_bare"}

\* C32 (as stated): a rate-limit answer is never the failure of a request.
\* The client pauses and asks again, so no call gives back a fetch failure
\* when the last thing it got was a rate-limit answer with its pause.
C32_RateLimitIsNeverAFailure ==
    (pc = "returned" /\ call.ret = "None" /\ call.responses # <<>>)
    => call.responses[Len(call.responses)] \notin Advertised

\* the step is one turn of the intake loop
IntakeTurn == pc = "intake" /\ urls # <<>> /\ urls' = Tail(urls)

\* C33: process_issue_repos on a file with at least one URL empties the
\* file, whatever became of each URL.  The loop is entered with every URL of
\* the file, no turn of it touches the file, and the step that leaves it
\* resets the file to the empty list; a URL whose metadata fetch failed
\* leaves the store and the queue as they were, and a run that finds the
\* file empty handles no URL.
C33_IntakeFileIsCleared ==
    [][/\ (pc = "loaded" /\ issueFile # <<>>)
          => (pc' = "intake" /\ urls' = issueFile /\ issueFile' = issueFile)
       /\ IntakeTurn => (pc' = "intake" /\ issueFile' = issueFile)
       /\ (pc = "intake" /\ pc' # "intake") => (urls = <<>> /\ issueFile' = <<>>)
       /\ (IntakeTurn /\ doc' = Skipped("fetch"))
          => (repos' = repos /\ candidates' = candidates /\ processed' = processed)
       /\ (pc = "loaded" /\ issueFile = <<>>)
          => (pc' = "search" /\ urls' = <<>> /\ repos' = repos)
       /\ (pc \in {"search", "pass_stars", "pass_updated", "process",
                   "search_done", "saved"})
          => issueFile = <<>>]_vars

\* C33 witness: the intake is over, the fetch for the last URL of the file
\* failed, nothing was added and the file is empty.
C33_Witness ==
    /\ pc = "search"
    /\ doc = Skipped("fetch")
    /\ processed = 0
    /\ repos = EmptyMap
    /\ issueFile = <<>>
    /\ ~historyFile.exists

\* the URL of this turn is not one: "len(parts) < 2"
InvalidTurn == IntakeTurn /\ Len(rstrip_split(Head(urls))) < 2

\* C34: an invalid submission URL is passed over and the batch goes on.
\* The turn that meets it leaves the store, the queue, the run lists and
\* the counter as they were; while URLs remain the loop stays in the intake
\* and takes them one by one, in order; a valid URL of a repository that is
\* not tracked and that GitHub serves is stored in its turn.
C34_InvalidUrlIsSkipped ==
    [][/\ InvalidTurn
          => /\ repos' = repos
             /\ candidates' = candidates
             /\ new_repos' = new_repos
             /\ fresh_releases' = fresh_releases
             /\ processed' = processed
             /\ doc' = Skipped("invalid")
       /\ (pc = "intake" /\ urls # <<>>)
          => (pc' = "intake" /\ urls' = Tail(urls))
       /\ (IntakeTurn /\ ~InvalidTurn /\ doc' \notin {Skipped("tracked"), Skipped("fetch")})
          => /\ doc'.op = "issue"
             /\ doc'.full_name \in DOMAIN repos'
             /\ processed' = processed + 1]_vars

\* C34 witness: the file holds an invalid URL and then the URL of c/d; the
\* loop is over, c/d was fetched and is tracked, the counter is 1.
C34_Witness ==
    /\ pc = "intake"
    /\ urls = <<>>
    /\ issueFile = <<UrlBad, UrlCD>>
    /\ processed = 1
    /\ doc.op = "issue"
    /\ doc.full_name = CD
    /\ DOMAIN repos = {CD}

\* the lower-cased text of the metadata a call was given
CallText ==
    {lower(w) : w \in call.repo.name
                       \cup {call.repo.description[i] : i \in DOMAIN call.repo.description}
                       \cup call.repo.topics}

\* the inclusion rule: a strong keyword, or an image context with a weak one
Included(text) ==
    \/ \E k \in StrongKeywords : k \in text
    \/ /\ \E c \in {"image", "photo", "picture", "visual"} : c \in text
       /\ \E k \in WeakKeywords : k \in text

\* C35 (as stated): is_relevant answers true exactly when the inclusion
\* rule holds of the lower-cased name, description and topics.
C35_RelevanceIsInclusion ==
    call.op = "is_relevant" => (call.ret <=> Included(CallText))

\* C35 (amended): is_relevant answers true exactly when no exclude keyword
\* occurs in the lower-cased name, description and topics and the inclusion
\* rule holds of them; the answer depends on the metadata only.
C35_RelevanceIsInclusionWithoutExcludes ==
    call.op = "is_relevant"
    => /\ call.ret <=> (/\ \A k \in ExcludeKeywords : k \notin CallText
                        /\ Included(CallText))
       /\ call.ret = is_relevant(call.repo)

\* C35 witness: metadata with a strong keyword in upper case and an exclude
\* keyword; the answer is false.
C35_Witness ==
    /\ call.op = "is_relevant"
    /\ call.repo.name = {"Super-Resolution", "audio"}
    /\ ~call.ret

\* the cache stores an entry under id i
Holds(i) == i \in DOMAIN call.cache.entries

\* C36 (as stated): after any sequence of add_entries, remove_source and
\* clear the indexes agree with the stored entries.  An id is in a year,
\* conference, source, domain, has-code or token bucket exactly when the
\* entry stored under that id has that value.
C36_IndexesAgreeWithEntries ==
    \A i \in EntryIds :
       LET e == call.cache.entries[i]
       IN /\ \A y \in Years :
                i \in call.cache.idx_by_year[y] <=> (Holds(i) /\ e.year = y)
          /\ \A c \in Conferences :
                i \in call.cache.idx_by_conference[c]
                <=> (Holds(i) /\ Truthy(e.conference) /\ upper(e.conference) = c)
          /\ \A x \in Sources :
                i \in call.cache.idx_by_source[x] <=> (Holds(i) /\ e.source_list = x)
          /\ \A d \in Domains :
                i \in call.cache.idx_by_domain[d] <=> (Holds(i) /\ e.domain = d)
          /\ i \in call.cache.idx_has_code
                <=> (Holds(i) /\ (e.has_repo \/ Truthy(e.github_url)))
          /\ \A t \in Tokens :
                i \in call.cache.idx_tokens[t] <=> (Holds(i) /\ t \in tokenize(e))

====
